---- MODULE Spec2Model ----
(***************************************************************************)
(* Session manager of disclaude: tmux-hosted agent sessions, the channel   *)
(* registry, the path allowlist and the last-output cache.                 *)
(*                                                                         *)
(* Strings are modelled as sequences of one-character strings, so that     *)
(* prefixing, startsWith, slicing and path resolution are computed the way *)
(* the code computes them.                                                 *)
(***************************************************************************)
EXTENDS Integers, Sequences, FiniteSets, TLC

VARIABLES
    allowedPaths,   \* module-level allowlist (sequence of resolved paths)
    channelMap,     \* Map session id -> channel id
    reverseMap,     \* Map channel id -> session id
    lastOutput,     \* Map session id -> last full capture
    host,           \* the multiplexer: running session name -> pane text
    pending,        \* sendToSession calls suspended on their timer (FIFO)
    lastCall        \* the manager call that ran last, its result and host commands

vars == <<allowedPaths, channelMap, reverseMap, lastOutput, host, pending, lastCall>>

-----------------------------------------------------------------------------
(* Bounds of the model *)

MaxPending == 2     \* sendToSession calls waiting on their timer at once
MaxPathLen == 3     \* length of the candidate directories enumerated in PathSpec
MaxRootLen == 2     \* length of the allowlist entries enumerated in PathSpec
MaxTextLen == 2     \* length of the texts enumerated in DiffSpec and QuoteSpec
MaxSessions == 2    \* sessions running at once in NameSpec

-----------------------------------------------------------------------------
(* Strings *)

SeqsUpTo(S, n) == UNION {[1..k -> S] : k \in 0..n}

StartsWith(s, p) == Len(p) <= Len(s) /\ SubSeq(s, 1, Len(p)) = p

EndsWith(s, p) == Len(p) <= Len(s) /\ SubSeq(s, Len(s) - Len(p) + 1, Len(s)) = p

SEP == "/"

\* s.split(sep): the pieces between separators, empty pieces kept
Split(s, sep) ==
    LET seps     == {i \in 1..Len(s) : s[i] = sep}
        n        == Cardinality(seps)
        Kth(k)   == CHOOSE x \in seps : Cardinality({y \in seps : y <= x}) = k
        start(k) == IF k = 1 THEN 1 ELSE Kth(k - 1) + 1
        stop(k)  == IF k = n + 1 THEN Len(s) ELSE Kth(k) - 1
    IN [k \in 1..(n + 1) |-> SubSeq(s, start(k), stop(k))]

-----------------------------------------------------------------------------
(* The shell that execSync hands its command string to: how /bin/sh splits  *)
(* a command line into words                                                 *)

\* What a command substitution $(...) is replaced with: the output of the command
SubstOutput == <<"r">>

Blank == {" ", "\t", "\n"}

\* Characters a backslash still escapes inside double quotes (the backquote,
\* which no text of the model contains, is left out)
DoubleEscapable == {"$", "\"", "\\"}

\* The index of the first character from i on that has a meaning in the mode
nextStop(s, i, mode) ==
    LET stops == IF mode = "single" THEN {"'"}
                 ELSE IF mode = "double" THEN {"\"", "\\", "$"}
                 ELSE Blank \cup {"'", "\"", "\\", "$"}
        at    == {k \in i..Len(s) : s[k] \in stops}
    IN IF at = {} THEN Len(s) + 1 ELSE CHOOSE k \in at : \A j \in at : k <= j

\* The scan from character i, which has a meaning in the mode: it is acted on, and
\* the ordinary characters that follow it go to the word as they are
RECURSIVE shellScan(_, _, _, _, _, _)
shellScan(s, i, mode, tok, inTok, out) ==
    IF i > Len(s) THEN (IF inTok THEN Append(out, tok) ELSE out)
    ELSE LET c      == s[i]
             closes == {k \in (i + 2)..Len(s) : s[k] = ")"}
             go(j, m, t, it, o) ==
                 LET n == nextStop(s, j, m)
                 IN shellScan(s, n, m, t \o SubSeq(s, j, n - 1), it \/ n > j, o)
         IN
         IF mode = "single"
         THEN go(i + 1, "plain", tok, TRUE, out)
         ELSE IF c = "$" /\ i < Len(s) /\ s[i + 1] = "(" /\ closes # {}
         THEN LET k == CHOOSE x \in closes : \A y \in closes : x <= y
              IN go(k + 1, mode, tok \o SubstOutput, TRUE, out)
         ELSE IF c = "\\" /\ i < Len(s) /\ (mode = "plain" \/ s[i + 1] \in DoubleEscapable)
         THEN go(i + 2, mode, Append(tok, s[i + 1]), TRUE, out)
         ELSE IF mode = "double"
         THEN IF c = "\"" THEN go(i + 1, "plain", tok, TRUE, out)
              ELSE go(i + 1, "double", Append(tok, c), TRUE, out)
         ELSE IF c = "'" THEN go(i + 1, "single", tok, TRUE, out)
         ELSE IF c = "\"" THEN go(i + 1, "double", tok, TRUE, out)
         ELSE IF c \in Blank
         THEN go(i + 1, "plain", <<>>, FALSE, IF inTok THEN Append(out, tok) ELSE out)
         ELSE go(i + 1, "plain", Append(tok, c), TRUE, out)

\* The words of a command line: blanks separate, quotes and backslash protect
shellWords(s) ==
    LET n == nextStop(s, 1, "plain")
    IN shellScan(s, n, "plain", SubSeq(s, 1, n - 1), n > 1, <<>>)

\* words.join(' ')
RECURSIVE joinWords(_)
joinWords(words) ==
    IF words = <<>> THEN <<>>
    ELSE IF Len(words) = 1 THEN words[1]
    ELSE words[1] \o <<" ">> \o joinWords(Tail(words))

-----------------------------------------------------------------------------
(* Paths: os.homedir(), process.cwd(), path.resolve() *)

homedir == <<"/", "h">>

cwd == <<"/", "w">>

\* path.resolve's normalisation of the segments of an absolute path
RECURSIVE NormalizeSegs(_, _)
NormalizeSegs(segs, out) ==
    IF segs = <<>> THEN out
    ELSE LET h == Head(segs) IN
         IF h = <<>> \/ h = <<".">> THEN NormalizeSegs(Tail(segs), out)
         ELSE IF h = <<".", ".">>
              THEN NormalizeSegs(Tail(segs),
                                 IF out = <<>> THEN out ELSE SubSeq(out, 1, Len(out) - 1))
              ELSE NormalizeSegs(Tail(segs), Append(out, h))

RECURSIVE JoinSegs(_)
JoinSegs(segs) ==
    IF segs = <<>> THEN <<>> ELSE <<SEP>> \o Head(segs) \o JoinSegs(Tail(segs))

resolve(p) ==
    LET abs  == IF p # <<>> /\ Head(p) = SEP THEN p ELSE cwd \o <<SEP>> \o p
        segs == NormalizeSegs(Split(abs, SEP), <<>>)
    IN IF segs = <<>> THEN <<SEP>> ELSE JoinSegs(segs)

\* p.startsWith('~') ? p.replace('~', homedir()) : p
expandHome(p) == IF p # <<>> /\ Head(p) = "~" THEN homedir \o Tail(p) ELSE p

\* The filesystem: the directories that exist (resolved paths)
ExistingDirs ==
    { <<"/">>, <<"/", "a">>, <<"/", "a", "/", "a">>, <<"/", "a", "a">>,
      <<"/", "h">>, <<"/", "w">>, <<"/", "a", "-">>,
      <<"/", "a", " ", "a">>, <<"/", "a", "/", "$", "(", "a", ")">> }

\* Mutant: the existence check always passes
existsSyncAlways(p) == TRUE

existsSync(p) == resolve(p) \in ExistingDirs

-----------------------------------------------------------------------------
(* PathAccessGuard *)

\* Mutant: prefix match without the separator boundary
isPathAllowedNoSep(targetPath) ==
    IF Len(allowedPaths) = 0 THEN TRUE
    ELSE LET resolved == resolve(targetPath) IN
         \E i \in 1..Len(allowedPaths) : StartsWith(resolved, allowedPaths[i])

\* Mutant: no exemption for the empty allowlist
isPathAllowedStrict(targetPath) ==
    LET resolved == resolve(targetPath) IN
    \E i \in 1..Len(allowedPaths) :
       \/ StartsWith(resolved, allowedPaths[i] \o <<"/">>)
       \/ resolved = allowedPaths[i]

isPathAllowed(targetPath) ==
    IF Len(allowedPaths) = 0 THEN TRUE
    ELSE LET resolved == resolve(targetPath) IN
         \E i \in 1..Len(allowedPaths) :
            \/ StartsWith(resolved, allowedPaths[i] \o <<"/">>)
            \/ resolved = allowedPaths[i]

-----------------------------------------------------------------------------
(* JavaScript Map *)

EmptyMap == [x \in {} |-> x]

MapHas(m, k) == k \in DOMAIN m

MapSet(m, k, v) == [x \in (DOMAIN m) \cup {k} |-> IF x = k THEN v ELSE m[x]]

MapDelete(m, k) == [x \in (DOMAIN m) \ {k} |-> m[x]]

\* if (v), for v = m.get(k): truthy when present and not the empty string
Truthy(m, k, empty) == MapHas(m, k) /\ m[k] # empty

EmptyId == <<>>        \* '' as a session id (a string of characters)
EmptyChannel == ""     \* '' as a channel id (opaque)

\* An optional value: <<>> is null/undefined, <<v>> is v
None == <<>>
Some(v) == <<v>>

-----------------------------------------------------------------------------
(* Naming *)

SESSION_PREFIX == <<"c", "l", "a", "u", "d", "e", "-">>

\* Mutant: the session id used as the host name, without the namespace prefix
getTmuxNameBare(sessionId) == sessionId

getTmuxName(sessionId) == SESSION_PREFIX \o sessionId

\* null for a name of another namespace, else the name after the prefix
getSessionIdFromTmuxName(tmuxName) ==
    IF ~StartsWith(tmuxName, SESSION_PREFIX) THEN None
    ELSE Some(SubSeq(tmuxName, Len(SESSION_PREFIX) + 1, Len(tmuxName)))

AttachPrefix == <<"t", "m", "u", "x", " ", "a", "t", "t", "a", "c", "h", " ", "-", "t", " ">>

-----------------------------------------------------------------------------
(* The multiplexer (tmux) as the manager sees it *)

InitialPane == <<>>

HostCmd(cmd, name, arg) == [cmd |-> cmd, name |-> name, arg |-> arg]

\* tmux has-session -t name
hostHas(h, name) == name \in DOMAIN h

\* The host as it is when the command issued after the existence probe arrives:
\* env = "raced" says that another actor has, in between, destroyed the session
\* the probe found or created the session the probe did not find.
hostAfterRace(h, name, env) ==
    IF env # "raced" THEN h
    ELSE IF hostHas(h, name) THEN MapDelete(h, name) ELSE MapSet(h, name, InitialPane)

\* A command addressed to a session is accepted when the session is there and
\* the host does not fail for a reason of its own (env = "fail").
hostAccepts(h, name, env) == hostHas(h, name) /\ env # "fail"

\* Mutant: the spawn's exit status is not looked at
hostSpawnStatusZero(h, name, env) == 0

\* tmux new-session -s name: refused for a duplicate name
hostSpawnStatus(h, name, env) == IF hostHas(h, name) \/ env = "fail" THEN 1 ELSE 0

\* result.stderr of a refused spawn: tmux names the duplicate; a spawn that
\* fails for another reason (env = "fail") leaves stderr empty
hostSpawnStderr(h, name, env) == IF hostHas(h, name) THEN "duplicate session" ELSE ""

-----------------------------------------------------------------------------
(* Record of the manager call that ran last *)

NoValue == "none"
NoId == <<>>

Call(op, id, arg, result, diag, ret, cmds) ==
    [n |-> 1 - lastCall.n, op |-> op, id |-> id, arg |-> arg,
     result |-> result, diag |-> diag, ret |-> ret, cmds |-> cmds]

OK == "ok"
ErrNotAllowed == "Directory not in allowed paths"
ErrDirMissing == "Directory does not exist"
ErrAlreadyExists == "already exists"
ErrCreate == "Failed to create session"
ErrDoesNotExist == "does not exist"
ErrSend == "Failed to send to session"
ErrCapture == "Failed to capture output"
ErrEscape == "Failed to send escape"
ErrKill == "Failed to kill session"

DiagDuplicate == "duplicate session"
DiagNoSession == "can't find session"
DiagHost == "tmux command failed"

\* The diagnostic of a refused command addressed to a session
diagOf(h, name) == IF hostHas(h, name) THEN DiagHost ELSE DiagNoSession

-----------------------------------------------------------------------------
(* SessionManager *)

\* Mutant: existence taken from the manager's own registry instead of the host
sessionExistsCached(sessionId) == MapHas(channelMap, sessionId)

\* Mutant: the host is asked about the id without the namespace prefix
sessionExistsUnprefixed(sessionId) == hostHas(host, sessionId)

sessionExists(sessionId) == hostHas(host, getTmuxName(sessionId))

probeCmd(sessionId) == HostCmd("has-session", getTmuxName(sessionId), <<>>)

\* Mutant: the new paths are added to the list instead of replacing it
setAllowedPathsAppend(paths) ==
    /\ allowedPaths' = allowedPaths \o [i \in 1..Len(paths) |-> resolve(expandHome(paths[i]))]
    /\ lastCall' = Call("setAllowedPaths", NoId, paths, OK, NoValue, None, <<>>)
    /\ UNCHANGED <<channelMap, reverseMap, lastOutput, host, pending>>

setAllowedPaths(paths) ==
    /\ allowedPaths' = [i \in 1..Len(paths) |-> resolve(expandHome(paths[i]))]
    /\ lastCall' = Call("setAllowedPaths", NoId, paths, OK, NoValue, None, <<>>)
    /\ UNCHANGED <<channelMap, reverseMap, lastOutput, host, pending>>

\* result.stderr?.toString() || 'tmux command failed'
spawnDiag(stderr) == IF stderr # "" THEN stderr ELSE DiagHost

\* The argument vector of the spawn: the literal arguments around the two values
SpawnHead ==
    << <<"n", "e", "w", "-", "s", "e", "s", "s", "i", "o", "n">>, <<"-", "d">>,
       <<"-", "x">>, <<"2", "0", "0">>, <<"-", "y">>, <<"5", "0">>, <<"-", "s">> >>

SpawnDirFlag == <<"-", "c">>

SpawnTail ==
    << <<"c", "l", "a", "u", "d", "e">>,
       <<"-", "-", "d", "a", "n", "g", "e", "r", "o", "u", "s", "l", "y", "-", "s", "k", "i", "p",
         "-", "p", "e", "r", "m", "i", "s", "s", "i", "o", "n", "s">> >>

\* Mutant: the spawn goes through a shell command string built by interpolation
\* (the literal arguments are words the shell leaves as they are)
spawnArgsViaShell(tmuxName, resolvedDir) ==
    SpawnHead \o shellWords(joinWords(<<tmuxName, SpawnDirFlag, resolvedDir>>)) \o SpawnTail

\* spawnSync('tmux', [...]): the vector reaches tmux element by element, no shell
spawnArgs(tmuxName, resolvedDir) ==
    SpawnHead \o <<tmuxName, SpawnDirFlag, resolvedDir>> \o SpawnTail

spawnCmd(tmuxName, resolvedDir) ==
    [cmd |-> "new-session", name |-> tmuxName, arg |-> resolvedDir,
     argv |-> spawnArgs(tmuxName, resolvedDir)]

\* Mutant: the session is looked for first, then the directory, then the allowlist
createSessionProbeFirst(sessionId, directory, channelId, env) ==
    LET tmuxName    == getTmuxName(sessionId)
        resolvedDir == resolve(expandHome(directory))
        arg         == <<directory, channelId>>
        Fail(result, diag, cmds) ==
            /\ lastCall' = Call("createSession", sessionId, arg, result, diag, None, cmds)
            /\ UNCHANGED <<channelMap, reverseMap>>
    IN
    /\ UNCHANGED <<allowedPaths, lastOutput, pending>>
    /\ IF sessionExists(sessionId)
       THEN Fail(ErrAlreadyExists, NoValue, <<probeCmd(sessionId)>>) /\ UNCHANGED host
       ELSE IF ~existsSync(resolvedDir)
       THEN Fail(ErrDirMissing, NoValue, <<probeCmd(sessionId)>>) /\ UNCHANGED host
       ELSE IF ~isPathAllowed(resolvedDir)
       THEN Fail(ErrNotAllowed, NoValue, <<probeCmd(sessionId)>>) /\ UNCHANGED host
       ELSE LET h     == hostAfterRace(host, tmuxName, env)
                spawn == spawnCmd(tmuxName, resolvedDir)
                cmds  == <<probeCmd(sessionId), spawn>>
            IN IF hostSpawnStatus(h, tmuxName, env) # 0
               THEN /\ Fail(ErrCreate, spawnDiag(hostSpawnStderr(h, tmuxName, env)), cmds)
                    /\ host' = h
               ELSE /\ host' = MapSet(h, tmuxName, InitialPane)
                    /\ channelMap' = MapSet(channelMap, sessionId, channelId)
                    /\ reverseMap' = MapSet(reverseMap, channelId, sessionId)
                    /\ lastCall' = Call("createSession", sessionId, arg, OK, NoValue,
                                        Some([id |-> sessionId, directory |-> resolvedDir,
                                              tmuxName |-> tmuxName, channelId |-> channelId,
                                              attachCommand |-> AttachPrefix \o tmuxName]),
                                        cmds)

createSession(sessionId, directory, channelId, env) ==
    LET tmuxName    == getTmuxName(sessionId)
        resolvedDir == resolve(expandHome(directory))
        arg         == <<directory, channelId>>
        Fail(result, diag, cmds) ==
            /\ lastCall' = Call("createSession", sessionId, arg, result, diag, None, cmds)
            /\ UNCHANGED <<channelMap, reverseMap>>
    IN
    /\ UNCHANGED <<allowedPaths, lastOutput, pending>>
    /\ IF ~isPathAllowed(resolvedDir)
       THEN Fail(ErrNotAllowed, NoValue, <<>>) /\ UNCHANGED host
       ELSE IF ~existsSync(resolvedDir)
       THEN Fail(ErrDirMissing, NoValue, <<>>) /\ UNCHANGED host
       ELSE IF sessionExists(sessionId)
       THEN Fail(ErrAlreadyExists, NoValue, <<probeCmd(sessionId)>>) /\ UNCHANGED host
       ELSE LET h     == hostAfterRace(host, tmuxName, env)
                spawn == spawnCmd(tmuxName, resolvedDir)
                cmds  == <<probeCmd(sessionId), spawn>>
            IN IF hostSpawnStatus(h, tmuxName, env) # 0
               THEN /\ Fail(ErrCreate, spawnDiag(hostSpawnStderr(h, tmuxName, env)), cmds)
                    /\ host' = h
               ELSE /\ host' = MapSet(h, tmuxName, InitialPane)
                    /\ channelMap' = MapSet(channelMap, sessionId, channelId)
                    /\ reverseMap' = MapSet(reverseMap, channelId, sessionId)
                    /\ lastCall' = Call("createSession", sessionId, arg, OK, NoValue,
                                        Some([id |-> sessionId, directory |-> resolvedDir,
                                              tmuxName |-> tmuxName, channelId |-> channelId,
                                              attachCommand |-> AttachPrefix \o tmuxName]),
                                        cmds)

\* Mutant: a link is recorded only for a session the host knows
linkChannelChecked(sessionId, channelId) ==
    /\ IF sessionExists(sessionId)
       THEN /\ channelMap' = MapSet(channelMap, sessionId, channelId)
            /\ reverseMap' = MapSet(reverseMap, channelId, sessionId)
       ELSE UNCHANGED <<channelMap, reverseMap>>
    /\ lastCall' = Call("linkChannel", sessionId, channelId, OK, NoValue, None,
                        <<probeCmd(sessionId)>>)
    /\ UNCHANGED <<allowedPaths, lastOutput, host, pending>>

linkChannel(sessionId, channelId) ==
    /\ channelMap' = MapSet(channelMap, sessionId, channelId)
    /\ reverseMap' = MapSet(reverseMap, channelId, sessionId)
    /\ lastCall' = Call("linkChannel", sessionId, channelId, OK, NoValue, None, <<>>)
    /\ UNCHANGED <<allowedPaths, lastOutput, host, pending>>

getSessionByChannel(channelId) ==
    IF MapHas(reverseMap, channelId) THEN Some(reverseMap[channelId]) ELSE None

getChannelBySession(sessionId) ==
    IF MapHas(channelMap, sessionId) THEN Some(channelMap[sessionId]) ELSE None

unlinkChannel(channelId) ==
    /\ IF Truthy(reverseMap, channelId, EmptyId)
       THEN /\ channelMap' = MapDelete(channelMap, reverseMap[channelId])
            /\ reverseMap' = MapDelete(reverseMap, channelId)
       ELSE UNCHANGED <<channelMap, reverseMap>>
    /\ lastCall' = Call("unlinkChannel", NoId, channelId, OK, NoValue, None, <<>>)
    /\ UNCHANGED <<allowedPaths, lastOutput, host, pending>>

\* Mutant: the text is put between the quotes as it is
escapeQuotesNone(text) == text

\* text.replace(/'/g, "'\\''"), wrapped in single quotes on the command line
RECURSIVE escapeQuotes(_)
escapeQuotes(text) ==
    IF text = <<>> THEN <<>>
    ELSE (IF Head(text) = "'" THEN <<"'", "\\", "'", "'">> ELSE <<Head(text)>>)
         \o escapeQuotes(Tail(text))

shellQuote(text) == <<"'">> \o escapeQuotes(text) \o <<"'">>

\* `tmux send-keys -t "${tmuxName}" -l ${quoted}`: the command string handed to the shell
sendKeysLine(tmuxName, quoted) ==
    <<"t", "m", "u", "x", " ", "s", "e", "n", "d", "-", "k", "e", "y", "s", " ", "-", "t", " ", "\"">>
        \o tmuxName \o <<"\"", " ", "-", "l", " ">> \o quoted

SEND_DELAY_MS == 1500

\* Mutant: Enter injected right after the text, without the wait
sendToSessionNoWait(sessionId, text, env) ==
    LET tmuxName == getTmuxName(sessionId)
        h        == hostAfterRace(host, tmuxName, env)
        keys     == HostCmd("send-keys -l", tmuxName, shellQuote(text))
        enter    == HostCmd("send-keys Enter", tmuxName, <<>>)
    IN
    /\ UNCHANGED <<allowedPaths, channelMap, reverseMap, lastOutput, pending>>
    /\ IF ~hostHas(host, tmuxName)
       THEN /\ lastCall' = Call("sendToSession", sessionId, text, ErrDoesNotExist, NoValue,
                                None, <<HostCmd("has-session", tmuxName, <<>>)>>)
            /\ UNCHANGED host
       ELSE /\ host' = h
            /\ IF hostAccepts(h, tmuxName, env)
               THEN lastCall' = Call("sendToSession", sessionId, text, OK, NoValue, Some(TRUE),
                                     <<HostCmd("has-session", tmuxName, <<>>), keys, enter>>)
               ELSE lastCall' = Call("sendToSession", sessionId, text, ErrSend,
                                     diagOf(h, tmuxName), None,
                                     <<HostCmd("has-session", tmuxName, <<>>), keys>>)

sendToSession(sessionId, text, env) ==
    LET tmuxName == getTmuxName(sessionId)
        h        == hostAfterRace(host, tmuxName, env)
        keys     == HostCmd("send-keys -l", tmuxName, shellQuote(text))
    IN
    /\ Len(pending) < MaxPending
    /\ UNCHANGED <<allowedPaths, channelMap, reverseMap, lastOutput>>
    /\ IF ~sessionExists(sessionId)
       THEN /\ lastCall' = Call("sendToSession", sessionId, text, ErrDoesNotExist, NoValue,
                                None, <<probeCmd(sessionId)>>)
            /\ UNCHANGED <<host, pending>>
       ELSE /\ host' = h
            /\ IF hostAccepts(h, tmuxName, env)
               THEN \* await new Promise(resolve => setTimeout(resolve, 1500))
                    /\ pending' = Append(pending, [id |-> sessionId, text |-> text,
                                                   remaining |-> SEND_DELAY_MS])
                    /\ lastCall' = Call("sendToSession", sessionId, text, "waiting", NoValue,
                                        None, <<probeCmd(sessionId), keys>>)
               ELSE /\ pending' = pending
                    /\ lastCall' = Call("sendToSession", sessionId, text, ErrSend,
                                        diagOf(h, tmuxName), None,
                                        <<probeCmd(sessionId), keys>>)

\* Mutant: the most recent pending send is resumed instead of the earliest
sendToSessionResumeLast(env) ==
    /\ pending # <<>>
    /\ pending[Len(pending)].remaining = 0
    /\ LET p        == pending[Len(pending)]
           tmuxName == getTmuxName(p.id)
           enter    == HostCmd("send-keys Enter", tmuxName, <<>>)
       IN IF hostAccepts(host, tmuxName, env)
          THEN lastCall' = Call("sendToSession.resume", p.id, p.text, OK, NoValue,
                                Some(TRUE), <<enter>>)
          ELSE lastCall' = Call("sendToSession.resume", p.id, p.text, ErrSend,
                                diagOf(host, tmuxName), None, <<enter>>)
    /\ pending' = SubSeq(pending, 1, Len(pending) - 1)
    /\ UNCHANGED <<allowedPaths, channelMap, reverseMap, lastOutput, host>>

\* Mutant: the outcome of the Enter injection is not looked at
sendToSessionResumeBlind(env) ==
    /\ pending # <<>>
    /\ Head(pending).remaining = 0
    /\ LET p        == Head(pending)
           tmuxName == getTmuxName(p.id)
           enter    == HostCmd("send-keys Enter", tmuxName, <<>>)
       IN lastCall' = Call("sendToSession.resume", p.id, p.text, OK, NoValue,
                           Some(TRUE), <<enter>>)
    /\ pending' = Tail(pending)
    /\ UNCHANGED <<allowedPaths, channelMap, reverseMap, lastOutput, host>>

\* The continuation of the send at the head of the timer queue, once its timer is due
sendToSessionResume(env) ==
    /\ pending # <<>>
    /\ Head(pending).remaining = 0
    /\ LET p        == Head(pending)
           tmuxName == getTmuxName(p.id)
           enter    == HostCmd("send-keys Enter", tmuxName, <<>>)
       IN IF hostAccepts(host, tmuxName, env)
          THEN lastCall' = Call("sendToSession.resume", p.id, p.text, OK, NoValue,
                                Some(TRUE), <<enter>>)
          ELSE lastCall' = Call("sendToSession.resume", p.id, p.text, ErrSend,
                                diagOf(host, tmuxName), None, <<enter>>)
    /\ pending' = Tail(pending)
    /\ UNCHANGED <<allowedPaths, channelMap, reverseMap, lastOutput, host>>

\* The granularity of time in the model: one timer delay
TickMs == SEND_DELAY_MS

\* TickMs milliseconds pass: every armed timer comes that much closer to due
Tick ==
    /\ \E i \in 1..Len(pending) : pending[i].remaining > 0
    /\ pending' = [i \in 1..Len(pending) |->
                      [pending[i] EXCEPT !.remaining =
                          IF @ > TickMs THEN @ - TickMs ELSE 0]]
    /\ UNCHANGED <<allowedPaths, channelMap, reverseMap, lastOutput, host, lastCall>>

\* Mutant: a refused Escape is tried a second time before the call gives up
sendEscapeRetry(sessionId, env) ==
    LET tmuxName == getTmuxName(sessionId)
        h        == hostAfterRace(host, tmuxName, env)
        escape   == HostCmd("send-keys Escape", tmuxName, <<>>)
    IN
    /\ UNCHANGED <<allowedPaths, channelMap, reverseMap, lastOutput, pending>>
    /\ IF ~sessionExists(sessionId)
       THEN /\ lastCall' = Call("sendEscape", sessionId, NoValue, ErrDoesNotExist, NoValue,
                                None, <<probeCmd(sessionId)>>)
            /\ UNCHANGED host
       ELSE /\ host' = h
            /\ IF hostAccepts(h, tmuxName, env)
               THEN lastCall' = Call("sendEscape", sessionId, NoValue, OK, NoValue,
                                     Some(TRUE), <<probeCmd(sessionId), escape>>)
               ELSE lastCall' = Call("sendEscape", sessionId, NoValue, ErrEscape,
                                     diagOf(h, tmuxName), None,
                                     <<probeCmd(sessionId), escape, escape>>)

sendEscape(sessionId, env) ==
    LET tmuxName == getTmuxName(sessionId)
        h        == hostAfterRace(host, tmuxName, env)
        cmds     == <<probeCmd(sessionId), HostCmd("send-keys Escape", tmuxName, <<>>)>>
    IN
    /\ UNCHANGED <<allowedPaths, channelMap, reverseMap, lastOutput, pending>>
    /\ IF ~sessionExists(sessionId)
       THEN /\ lastCall' = Call("sendEscape", sessionId, NoValue, ErrDoesNotExist, NoValue,
                                None, <<probeCmd(sessionId)>>)
            /\ UNCHANGED host
       ELSE /\ host' = h
            /\ IF hostAccepts(h, tmuxName, env)
               THEN lastCall' = Call("sendEscape", sessionId, NoValue, OK, NoValue,
                                     Some(TRUE), cmds)
               ELSE lastCall' = Call("sendEscape", sessionId, NoValue, ErrEscape,
                                     diagOf(h, tmuxName), None, cmds)

\* Mutant: the mappings are cleaned up before the kill command is issued
killSessionEvictFirst(sessionId, env) ==
    LET tmuxName == getTmuxName(sessionId)
        h        == hostAfterRace(host, tmuxName, env)
        cmds     == <<probeCmd(sessionId), HostCmd("kill-session", tmuxName, <<>>)>>
    IN
    /\ UNCHANGED <<allowedPaths, pending>>
    /\ IF ~sessionExists(sessionId)
       THEN /\ lastCall' = Call("killSession", sessionId, NoValue, ErrDoesNotExist, NoValue,
                                None, <<probeCmd(sessionId)>>)
            /\ UNCHANGED <<host, channelMap, reverseMap, lastOutput>>
       ELSE /\ reverseMap' = IF Truthy(channelMap, sessionId, EmptyChannel)
                             THEN MapDelete(reverseMap, channelMap[sessionId])
                             ELSE reverseMap
            /\ channelMap' = MapDelete(channelMap, sessionId)
            /\ lastOutput' = MapDelete(lastOutput, sessionId)
            /\ IF hostAccepts(h, tmuxName, env)
               THEN /\ host' = MapDelete(h, tmuxName)
                    /\ lastCall' = Call("killSession", sessionId, NoValue, OK, NoValue,
                                        Some(TRUE), cmds)
               ELSE /\ host' = h
                    /\ lastCall' = Call("killSession", sessionId, NoValue, ErrKill,
                                        diagOf(h, tmuxName), None, cmds)

\* Mutant: the last-output entry survives the kill
killSessionKeepCache(sessionId, env) ==
    LET tmuxName == getTmuxName(sessionId)
        h        == hostAfterRace(host, tmuxName, env)
        cmds     == <<probeCmd(sessionId), HostCmd("kill-session", tmuxName, <<>>)>>
    IN
    /\ UNCHANGED <<allowedPaths, pending, lastOutput>>
    /\ IF ~sessionExists(sessionId)
       THEN /\ lastCall' = Call("killSession", sessionId, NoValue, ErrDoesNotExist, NoValue,
                                None, <<probeCmd(sessionId)>>)
            /\ UNCHANGED <<host, channelMap, reverseMap>>
       ELSE IF hostAccepts(h, tmuxName, env)
       THEN /\ host' = MapDelete(h, tmuxName)
            /\ reverseMap' = IF Truthy(channelMap, sessionId, EmptyChannel)
                             THEN MapDelete(reverseMap, channelMap[sessionId])
                             ELSE reverseMap
            /\ channelMap' = MapDelete(channelMap, sessionId)
            /\ lastCall' = Call("killSession", sessionId, NoValue, OK, NoValue,
                                Some(TRUE), cmds)
       ELSE /\ host' = h
            /\ lastCall' = Call("killSession", sessionId, NoValue, ErrKill,
                                diagOf(h, tmuxName), None, cmds)
            /\ UNCHANGED <<channelMap, reverseMap>>

killSession(sessionId, env) ==
    LET tmuxName == getTmuxName(sessionId)
        h        == hostAfterRace(host, tmuxName, env)
        cmds     == <<probeCmd(sessionId), HostCmd("kill-session", tmuxName, <<>>)>>
    IN
    /\ UNCHANGED <<allowedPaths, pending>>
    /\ IF ~sessionExists(sessionId)
       THEN /\ lastCall' = Call("killSession", sessionId, NoValue, ErrDoesNotExist, NoValue,
                                None, <<probeCmd(sessionId)>>)
            /\ UNCHANGED <<host, channelMap, reverseMap, lastOutput>>
       ELSE IF hostAccepts(h, tmuxName, env)
       THEN /\ host' = MapDelete(h, tmuxName)
            \* Clean up mappings
            /\ reverseMap' = IF Truthy(channelMap, sessionId, EmptyChannel)
                             THEN MapDelete(reverseMap, channelMap[sessionId])
                             ELSE reverseMap
            /\ channelMap' = MapDelete(channelMap, sessionId)
            /\ lastOutput' = MapDelete(lastOutput, sessionId)
            /\ lastCall' = Call("killSession", sessionId, NoValue, OK, NoValue,
                                Some(TRUE), cmds)
       ELSE /\ host' = h
            /\ lastCall' = Call("killSession", sessionId, NoValue, ErrKill,
                                diagOf(h, tmuxName), None, cmds)
            /\ UNCHANGED <<channelMap, reverseMap, lastOutput>>

\* Mutant: the session's directory is checked against the allowlist at every capture
captureOutputGuarded(sessionId, env) ==
    LET tmuxName == getTmuxName(sessionId)
        h        == hostAfterRace(host, tmuxName, env)
        cmds     == <<probeCmd(sessionId), HostCmd("capture-pane", tmuxName, <<>>)>>
    IN
    /\ UNCHANGED <<allowedPaths, channelMap, reverseMap, lastOutput, pending>>
    /\ IF ~sessionExists(sessionId)
       THEN /\ lastCall' = Call("captureOutput", sessionId, NoValue, ErrDoesNotExist,
                                NoValue, None, <<probeCmd(sessionId)>>)
            /\ UNCHANGED host
       ELSE IF ~isPathAllowed(<<"/", "a">>)
       THEN /\ lastCall' = Call("captureOutput", sessionId, NoValue, ErrNotAllowed,
                                NoValue, None, <<probeCmd(sessionId)>>)
            /\ UNCHANGED host
       ELSE /\ host' = h
            /\ IF hostAccepts(h, tmuxName, env)
               THEN lastCall' = Call("captureOutput", sessionId, NoValue, OK, NoValue,
                                     Some(h[tmuxName]), cmds)
               ELSE lastCall' = Call("captureOutput", sessionId, NoValue, ErrCapture,
                                     diagOf(h, tmuxName), None, cmds)

captureOutput(sessionId, env) ==
    LET tmuxName == getTmuxName(sessionId)
        h        == hostAfterRace(host, tmuxName, env)
        cmds     == <<probeCmd(sessionId), HostCmd("capture-pane", tmuxName, <<>>)>>
    IN
    /\ UNCHANGED <<allowedPaths, channelMap, reverseMap, lastOutput, pending>>
    /\ IF ~sessionExists(sessionId)
       THEN /\ lastCall' = Call("captureOutput", sessionId, NoValue, ErrDoesNotExist,
                                NoValue, None, <<probeCmd(sessionId)>>)
            /\ UNCHANGED host
       ELSE /\ host' = h
            /\ IF hostAccepts(h, tmuxName, env)
               THEN lastCall' = Call("captureOutput", sessionId, NoValue, OK, NoValue,
                                     Some(h[tmuxName]), cmds)
               ELSE lastCall' = Call("captureOutput", sessionId, NoValue, ErrCapture,
                                     diagOf(h, tmuxName), None, cmds)

-----------------------------------------------------------------------------
(* OutputDiffer: the body of getNewOutput after the capture *)

Whitespace == {" ", "\n", "\t", "\r"}

RECURSIVE trimStart(_)
trimStart(s) == IF s # <<>> /\ Head(s) \in Whitespace THEN trimStart(Tail(s)) ELSE s

RECURSIVE trimEnd(_)
trimEnd(s) ==
    IF s # <<>> /\ s[Len(s)] \in Whitespace THEN trimEnd(SubSeq(s, 1, Len(s) - 1)) ELSE s

trim(s) == trimEnd(trimStart(s))

TAIL_CHARS == 500

\* Mutant: the whole of the previous capture is compared, not its tail
sliceWhole(s, n) == s

\* s.slice(-n)
sliceLast(s, n) == IF Len(s) <= n THEN s ELSE SubSeq(s, Len(s) - n + 1, Len(s))

includes(lines, line) == \E i \in 1..Len(lines) : lines[i] = line

\* Mutant: each new line is compared with the previous line at the same position
RECURSIVE diffStartFromAligned(_, _, _)
diffStartFromAligned(lastLines, newLines, i) ==
    IF i > Len(newLines) THEN i - 1
    ELSE IF i <= Len(lastLines) /\ lastLines[i] = newLines[i]
    THEN diffStartFromAligned(lastLines, newLines, i + 1)
    ELSE i - 1

\* The for loop: the index after the leading run of new lines found in lastLines
RECURSIVE diffStartFrom(_, _, _)
diffStartFrom(lastLines, newLines, i) ==
    IF i > Len(newLines) THEN i - 1
    ELSE IF includes(lastLines, newLines[i]) THEN diffStartFrom(lastLines, newLines, i + 1)
    ELSE i - 1

RECURSIVE joinLines(_)
joinLines(lines) ==
    IF lines = <<>> THEN <<>>
    ELSE IF Len(lines) = 1 THEN lines[1]
    ELSE lines[1] \o <<"\n">> \o joinLines(Tail(lines))

fastPath(last, output) ==
    Len(output) > Len(last) /\ EndsWith(output, sliceLast(last, TAIL_CHARS))

generalPath(last, output) ==
    LET lastLines  == Split(trim(last), "\n")
        newLines   == Split(trim(output), "\n")
        diffStart  == diffStartFrom(lastLines, newLines, 1)
        newContent == trim(joinLines(SubSeq(newLines, diffStart + 1, Len(newLines))))
    IN IF newContent = <<>> THEN None ELSE Some(newContent)

\* Mutant: no early return for a first or an unchanged capture
diffOutputNoGuard(last, output) ==
    IF fastPath(last, output)
    THEN Some(SubSeq(output, 1, Len(output) - Len(last)))
    ELSE generalPath(last, output)

diffOutput(last, output) ==
    IF last = <<>> \/ output = last THEN None
    ELSE IF fastPath(last, output)
    THEN Some(SubSeq(output, 1, Len(output) - Len(last)))
    ELSE generalPath(last, output)

\* Mutant: the cache is updated only when new output is reported
getNewOutputLazyStore(sessionId, env) ==
    LET tmuxName == getTmuxName(sessionId)
        h        == hostAfterRace(host, tmuxName, env)
        cmds     == <<probeCmd(sessionId), HostCmd("capture-pane", tmuxName, <<>>)>>
    IN
    /\ UNCHANGED <<allowedPaths, channelMap, reverseMap, pending>>
    /\ IF ~sessionExists(sessionId)
       THEN /\ lastCall' = Call("getNewOutput", sessionId, NoValue, ErrDoesNotExist,
                                NoValue, None, <<probeCmd(sessionId)>>)
            /\ UNCHANGED <<host, lastOutput>>
       ELSE /\ host' = h
            /\ IF hostAccepts(h, tmuxName, env)
               THEN LET output == h[tmuxName]
                        last   == IF MapHas(lastOutput, sessionId)
                                  THEN lastOutput[sessionId] ELSE <<>>
                        diff   == diffOutput(last, output)
                    IN /\ lastOutput' = IF diff = None /\ MapHas(lastOutput, sessionId)
                                        THEN lastOutput
                                        ELSE MapSet(lastOutput, sessionId, output)
                       /\ lastCall' = Call("getNewOutput", sessionId, NoValue, OK, NoValue,
                                           diff, cmds)
               ELSE /\ lastCall' = Call("getNewOutput", sessionId, NoValue, ErrCapture,
                                        diagOf(h, tmuxName), None, cmds)
                    /\ UNCHANGED lastOutput

\* Mutant: a failed call forgets the previous capture
getNewOutputForgetOnFail(sessionId, env) ==
    LET tmuxName == getTmuxName(sessionId)
        h        == hostAfterRace(host, tmuxName, env)
        cmds     == <<probeCmd(sessionId), HostCmd("capture-pane", tmuxName, <<>>)>>
    IN
    /\ UNCHANGED <<allowedPaths, channelMap, reverseMap, pending>>
    /\ IF ~sessionExists(sessionId)
       THEN /\ lastCall' = Call("getNewOutput", sessionId, NoValue, ErrDoesNotExist,
                                NoValue, None, <<probeCmd(sessionId)>>)
            /\ lastOutput' = MapDelete(lastOutput, sessionId)
            /\ UNCHANGED host
       ELSE /\ host' = h
            /\ IF hostAccepts(h, tmuxName, env)
               THEN LET output == h[tmuxName]
                        last   == IF MapHas(lastOutput, sessionId)
                                  THEN lastOutput[sessionId] ELSE <<>>
                    IN /\ lastOutput' = MapSet(lastOutput, sessionId, output)
                       /\ lastCall' = Call("getNewOutput", sessionId, NoValue, OK, NoValue,
                                           diffOutput(last, output), cmds)
               ELSE /\ lastCall' = Call("getNewOutput", sessionId, NoValue, ErrCapture,
                                        diagOf(h, tmuxName), None, cmds)
                    /\ lastOutput' = MapDelete(lastOutput, sessionId)

getNewOutput(sessionId, env) ==
    LET tmuxName == getTmuxName(sessionId)
        h        == hostAfterRace(host, tmuxName, env)
        cmds     == <<probeCmd(sessionId), HostCmd("capture-pane", tmuxName, <<>>)>>
    IN
    /\ UNCHANGED <<allowedPaths, channelMap, reverseMap, pending>>
    /\ IF ~sessionExists(sessionId)
       THEN /\ lastCall' = Call("getNewOutput", sessionId, NoValue, ErrDoesNotExist,
                                NoValue, None, <<probeCmd(sessionId)>>)
            /\ UNCHANGED <<host, lastOutput>>
       ELSE /\ host' = h
            /\ IF hostAccepts(h, tmuxName, env)
               THEN LET output == h[tmuxName]
                        last   == IF MapHas(lastOutput, sessionId)
                                  THEN lastOutput[sessionId] ELSE <<>>
                    IN /\ lastOutput' = MapSet(lastOutput, sessionId, output)
                       /\ lastCall' = Call("getNewOutput", sessionId, NoValue, OK, NoValue,
                                           diffOutput(last, output), cmds)
               ELSE /\ lastCall' = Call("getNewOutput", sessionId, NoValue, ErrCapture,
                                        diagOf(h, tmuxName), None, cmds)
                    /\ UNCHANGED lastOutput

-----------------------------------------------------------------------------
(* listSessions: the host's listing, formatted by tmux and parsed by the manager *)

RECURSIVE SetToSeq(_)
SetToSeq(S) ==
    IF S = {} THEN <<>>
    ELSE LET x == CHOOSE y \in S : TRUE IN <<x>> \o SetToSeq(S \ {x})

RECURSIVE Concat(_)
Concat(ss) == IF ss = <<>> THEN <<>> ELSE Head(ss) \o Concat(Tail(ss))

\* What the host reports as #{session_created} and #{pane_current_path}
hostCreated(h, name) == <<"1">>
hostPath(h, name) == <<"/", "a">>

\* -F "#{session_name}|#{session_created}|#{pane_current_path}", one line per session
hostListLine(h, name) ==
    name \o <<"|">> \o hostCreated(h, name) \o <<"|">> \o hostPath(h, name) \o <<"\n">>

hostListOutput(h) ==
    LET names == SetToSeq(DOMAIN h)
    IN Concat([i \in 1..Len(names) |-> hostListLine(h, names[i])])

\* Mutant: the last occurrence of the pattern removed
replaceLast(s, pattern) ==
    LET at == {i \in 1..(Len(s) - Len(pattern) + 1) :
                  SubSeq(s, i, i + Len(pattern) - 1) = pattern}
    IN IF at = {} THEN s
       ELSE LET i == CHOOSE k \in at : \A j \in at : k >= j
            IN SubSeq(s, 1, i - 1) \o SubSeq(s, i + Len(pattern), Len(s))

\* s.replace(pattern, ''): the first occurrence of the pattern removed
replaceFirst(s, pattern) ==
    LET at == {i \in 1..(Len(s) - Len(pattern) + 1) :
                  SubSeq(s, i, i + Len(pattern) - 1) = pattern}
    IN IF at = {} THEN s
       ELSE LET i == CHOOSE k \in at : \A j \in at : k <= j
            IN SubSeq(s, 1, i - 1) \o SubSeq(s, i + Len(pattern), Len(s))

Unknown == <<"u", "n", "k", "n", "o", "w", "n">>

\* line.startsWith(SESSION_PREFIX)
hasPrefix(line) == StartsWith(line, SESSION_PREFIX)

\* The .map callback: one listed line to a SessionInfo
listEntry(line) ==
    LET parts == Split(line, "|")
        name  == parts[1]
        path  == IF Len(parts) >= 3 /\ parts[3] # <<>> THEN parts[3] ELSE Unknown
        id    == replaceFirst(name, SESSION_PREFIX)
    IN [id |-> id, tmuxName |-> name, directory |-> path,
        channelId |-> getChannelBySession(id), attachCommand |-> AttachPrefix \o name]

parseList(output) ==
    LET lines == SelectSeq(Split(trim(output), "\n"), hasPrefix)
    IN [i \in 1..Len(lines) |-> listEntry(lines[i])]

\* tmux list-sessions fails when the host fails (env = "fail") and when no
\* server is running, which is the case when there is no session
listSessions(env) ==
    LET cmds    == <<HostCmd("list-sessions", <<>>, <<>>)>>
        entries == IF env = "fail" \/ DOMAIN host = {} THEN <<>>
                   ELSE parseList(hostListOutput(host))
    IN /\ lastCall' = Call("listSessions", NoId, NoValue, OK, NoValue, Some(entries), cmds)
       /\ UNCHANGED <<allowedPaths, channelMap, reverseMap, lastOutput, host, pending>>

-----------------------------------------------------------------------------
(* The other read-only queries: getSession, checkTmux, sessionExists *)

\* tmux list-sessions -f "#{==:#{session_name},name}": the line of that session, if any
hostListOne(h, name) == IF hostHas(h, name) THEN hostListLine(h, name) ELSE <<>>

\* Mutant: an absent session is reported as an error, as the mutating operations do
getSessionThrowing(sessionId, env) ==
    /\ lastCall' = IF sessionExists(sessionId)
                   THEN Call("getSession", sessionId, NoValue, OK, NoValue, None,
                             <<probeCmd(sessionId)>>)
                   ELSE Call("getSession", sessionId, NoValue, ErrDoesNotExist, NoValue, None,
                             <<probeCmd(sessionId)>>)
    /\ UNCHANGED <<allowedPaths, channelMap, reverseMap, lastOutput, host, pending>>

getSession(sessionId, env) ==
    LET tmuxName == getTmuxName(sessionId)
        h        == hostAfterRace(host, tmuxName, env)
        list     == HostCmd("list-sessions", tmuxName, <<>>)
        line     == trim(hostListOne(h, tmuxName))
        parts    == Split(line, "|")
        info     == [id |-> sessionId, tmuxName |-> parts[1],
                     directory |-> IF Len(parts) >= 3 /\ parts[3] # <<>>
                                   THEN parts[3] ELSE Unknown,
                     channelId |-> getChannelBySession(sessionId),
                     attachCommand |-> AttachPrefix \o parts[1]]
    IN
    /\ UNCHANGED <<allowedPaths, channelMap, reverseMap, lastOutput, pending>>
    /\ IF ~sessionExists(sessionId)
       THEN /\ lastCall' = Call("getSession", sessionId, NoValue, OK, NoValue, None,
                                <<probeCmd(sessionId)>>)
            /\ UNCHANGED host
       ELSE /\ host' = h
            /\ lastCall' = Call("getSession", sessionId, NoValue, OK, NoValue,
                                IF env = "fail" \/ line = <<>> THEN None ELSE Some(info),
                                <<probeCmd(sessionId), list>>)

\* execSync('which tmux'): fails when tmux is not installed (env = "fail")
checkTmux(env) ==
    /\ lastCall' = Call("checkTmux", NoId, NoValue, OK, NoValue, Some(env # "fail"),
                        <<HostCmd("which tmux", <<>>, <<>>)>>)
    /\ UNCHANGED <<allowedPaths, channelMap, reverseMap, lastOutput, host, pending>>

\* sessionExists called by a client: false when the session is not there and
\* when the probe fails for a reason of the host's own (env = "fail")
sessionExistsCall(sessionId, env) ==
    /\ lastCall' = Call("sessionExists", sessionId, NoValue, OK, NoValue,
                        Some(sessionExists(sessionId) /\ env # "fail"),
                        <<probeCmd(sessionId)>>)
    /\ UNCHANGED <<allowedPaths, channelMap, reverseMap, lastOutput, host, pending>>

-----------------------------------------------------------------------------
(* Other actors on the host: the agent writing to its pane, and anyone       *)
(* creating or destroying sessions with tmux directly                        *)

ExternalCreate(name) ==
    /\ ~hostHas(host, name)
    /\ host' = MapSet(host, name, InitialPane)
    /\ UNCHANGED <<allowedPaths, channelMap, reverseMap, lastOutput, pending, lastCall>>

ExternalKill(name) ==
    /\ hostHas(host, name)
    /\ host' = MapDelete(host, name)
    /\ UNCHANGED <<allowedPaths, channelMap, reverseMap, lastOutput, pending, lastCall>>

PaneOutput(name, text) ==
    /\ hostHas(host, name)
    /\ host[name] # text
    /\ host' = [host EXCEPT ![name] = text]
    /\ UNCHANGED <<allowedPaths, channelMap, reverseMap, lastOutput, pending, lastCall>>

-----------------------------------------------------------------------------
(* Inputs *)

Ids == {<<"a">>, <<"b">>}

Channels == {"c1", "c2"}

Envs == {"ok", "fail", "raced"}

Init ==
    /\ allowedPaths = <<>>
    /\ channelMap = EmptyMap
    /\ reverseMap = EmptyMap
    /\ lastOutput = EmptyMap
    /\ host = EmptyMap
    /\ pending = <<>>
    /\ lastCall = [n |-> 0, op |-> "init", id |-> NoId, arg |-> NoValue,
                   result |-> OK, diag |-> NoValue, ret |-> None, cmds |-> <<>>]

-----------------------------------------------------------------------------
(* Spec: session lifecycle and the channel registry *)

\* /a exists, /x does not
Dirs == { <<"/", "a">>, <<"/", "x">> }

Next ==
    \/ \E id \in Ids, d \in Dirs, c \in Channels, env \in Envs : createSession(id, d, c, env)
    \/ \E id \in Ids, c \in Channels : linkChannel(id, c)
    \/ \E c \in Channels : unlinkChannel(c)
    \/ \E id \in Ids, env \in Envs : killSession(id, env)
    \/ getNewOutput(<<"a">>, "ok")
    \/ \E id \in Ids : ExternalCreate(getTmuxName(id))
    \/ \E id \in Ids : ExternalKill(getTmuxName(id))

Spec == Init /\ [][Next]_vars

-----------------------------------------------------------------------------
(* SendSpec: input delivery, capture and kill against sessions that come and go *)

Texts == { <<"i", "t", "'", "s">> }

Panes == { <<"A">> }

NextSend ==
    \/ \E id \in Ids, t \in Texts, env \in Envs : sendToSession(id, t, env)
    \/ \E env \in {"ok", "fail"} : sendToSessionResume(env)
    \/ Tick
    \/ \E id \in Ids, env \in Envs : sendEscape(id, env)
    \/ \E env \in Envs : captureOutput(<<"a">>, env)
    \/ \E env \in Envs : getNewOutput(<<"a">>, env)
    \/ \E id \in Ids, env \in Envs : killSession(id, env)
    \/ linkChannel(<<"a">>, "c1")
    \/ \E env \in Envs : createSession(<<"a">>, <<"/", "a">>, "c1", env)
    \/ \E id \in Ids : ExternalCreate(getTmuxName(id))
    \/ \E id \in Ids : ExternalKill(getTmuxName(id))
    \/ \E t \in Panes : PaneOutput(getTmuxName(<<"a">>), t)

SendSpec == Init /\ [][NextSend]_vars

-----------------------------------------------------------------------------
(* PathSpec: the allowlist and createSession over enumerated paths *)

PathChars == {"/", "a", "."}

RootInputs == SeqsUpTo(PathChars, MaxRootLen) \cup { <<"~">>, <<"/", "a", "/", "a">> }

\* Directories whose names hold characters the shell gives a meaning to
MetaDirs == { <<"/", "a", " ", "a">>, <<"/", "a", "/", "$", "(", "a", ")">> }

PathInputs == SeqsUpTo(PathChars, MaxPathLen)
                 \cup { <<"~">>, <<"~", "/", "a">>, <<"/", "a", "/", "a">>, <<"/", "a", "/", ".", ".">> }
                 \cup MetaDirs

SecondRoots == { <<"/", "a", "/", "a">>, <<"/">> }

\* Each behaviour configures the allowlist (any number of times), links a
\* channel or not, lets the session be there or not, and then calls
\* createSession once.
Configuring == lastCall.op # "createSession"

NextPath ==
    \/ \E r \in RootInputs : Configuring /\ setAllowedPaths(<<r>>)
    \/ \E r1 \in RootInputs, r2 \in SecondRoots : Configuring /\ setAllowedPaths(<<r1, r2>>)
    \/ Configuring /\ setAllowedPaths(<<>>)
    \/ \E d \in PathInputs, env \in {"ok", "fail"} :
          Configuring /\ createSession(<<"a">>, d, "c1", env)
    \/ Configuring /\ linkChannel(<<"a">>, "c2")
    \/ Configuring /\ ExternalCreate(getTmuxName(<<"a">>))
    \/ Configuring /\ ExternalKill(getTmuxName(<<"a">>))

PathSpec == Init /\ [][NextPath]_vars

-----------------------------------------------------------------------------
(* DiffSpec: getNewOutput against a pane whose text changes arbitrarily *)

TextChars == {"A", "B", "\n"}

Rep(c, n) == [i \in 1..n |-> c]

\* Texts longer than the tail the fast path compares: equal in their last
\* TAIL_CHARS characters, different before
LongTexts ==
    { Rep("A", TAIL_CHARS),
      <<"B">> \o Rep("A", TAIL_CHARS),
      <<"B", "C">> \o Rep("A", TAIL_CHARS) }

DiffTexts ==
    SeqsUpTo(TextChars, MaxTextLen)
        \cup { <<"A", "\n", "B">>, <<"A", "\n", "B", "\n", "C">>,
               <<"A", "\n", "C", "\n", "A">>, <<" ", "A", " ">> }
        \cup LongTexts

NextDiff ==
    \/ \E env \in Envs : getNewOutput(<<"a">>, env)
    \/ \E t \in DiffTexts : PaneOutput(getTmuxName(<<"a">>), t)
    \/ killSession(<<"a">>, "ok")
    \/ ExternalCreate(getTmuxName(<<"a">>))
    \/ ExternalKill(getTmuxName(<<"a">>))

DiffSpec == Init /\ [][NextDiff]_vars

-----------------------------------------------------------------------------
(* ListSpec: the read-only queries against sessions of this manager and of others *)

\* An id of one character and an id that contains the listing's field separator
ListIds == { <<"a">>, <<"a", "|", "b">> }

\* Sessions of other programs: no prefix, the prefix not at the start, the prefix alone
OtherNames == { <<"x">>, <<"x">> \o SESSION_PREFIX \o <<"a">>, SESSION_PREFIX }

NextList ==
    \/ \E id \in ListIds, env \in {"ok", "raced"} : createSession(id, <<"/", "a">>, "c1", env)
    \/ \E id \in ListIds : killSession(id, "ok")
    \/ getNewOutput(<<"a">>, "ok")
    \/ \E env \in {"ok", "fail"} : listSessions(env)
    \/ \E id \in ListIds, env \in Envs : getSession(id, env)
    \/ \E env \in {"ok", "fail"} : checkTmux(env)
    \/ \E id \in ListIds, env \in {"ok", "fail"} : sessionExistsCall(id, env)
    \/ \E name \in OtherNames : ExternalCreate(name)
    \/ \E name \in OtherNames : ExternalKill(name)

ListSpec == Init /\ [][NextList]_vars

-----------------------------------------------------------------------------
(* QuoteSpec: sendToSession over enumerated texts, one send at a time *)

QuoteChars == {"'", "a", " ", "\\"}

QuoteTexts ==
    SeqsUpTo(QuoteChars, MaxTextLen)
        \cup { <<"i", "t", "'", "s">>, <<"'", "\\", "'", "'">>, <<"a", "'", " ", "'", "a">>,
               <<"$", "(", "a", ")">>, <<"\"", "a", "\"">> }

\* The client awaits each send before the next
Idle == pending = <<>>

NextQuote ==
    \/ \E t \in QuoteTexts : Idle /\ sendToSession(<<"a">>, t, "ok")
    \/ \E env \in {"ok", "fail"} : sendToSessionResume(env)
    \/ Tick
    \/ ExternalCreate(getTmuxName(<<"a">>))
    \/ ExternalKill(getTmuxName(<<"a">>))

QuoteSpec == Init /\ [][NextQuote]_vars

-----------------------------------------------------------------------------
(* NameSpec: naming and listing over ids that contain the prefix themselves *)

NameIds ==
    { <<>>, <<"a">>, <<"b">>, <<"e", "-">>, SESSION_PREFIX, SESSION_PREFIX \o <<"a">>,
      <<"a">> \o SESSION_PREFIX, SESSION_PREFIX \o SESSION_PREFIX }

\* The host has room for MaxSessions sessions
Room == Cardinality(DOMAIN host) < MaxSessions

NextName ==
    \/ \E id \in NameIds, env \in {"ok", "fail"} :
          Room /\ createSession(id, <<"/", "a">>, "c1", env)
    \/ \E id \in NameIds : killSession(id, "ok")
    \/ \E env \in {"ok", "fail"} : listSessions(env)

NameSpec == Init /\ [][NextName]_vars

-----------------------------------------------------------------------------
(* GuardSpec: the allowlist replaced while a session created under it runs *)

\* Every session of this specification is created by createSession in this directory
SessionDir == <<"/", "a">>

\* Allowlists that contain the directory, that do not, and the empty one
GuardLists == { << <<"/", "a">> >>, << <<"/", "x">> >>, << <<"/", "x">>, <<"/", "a", "/", "a">> >>, <<>> }

NextGuard ==
    \/ \E l \in GuardLists : setAllowedPaths(l)
    \/ \E env \in {"ok", "fail"} : createSession(<<"a">>, SessionDir, "c1", env)
    \/ \E t \in Texts, env \in {"ok", "fail"} : sendToSession(<<"a">>, t, env)
    \/ \E env \in {"ok", "fail"} : sendToSessionResume(env)
    \/ Tick
    \/ \E env \in {"ok", "fail"} : sendEscape(<<"a">>, env)
    \/ \E env \in {"ok", "fail"} : captureOutput(<<"a">>, env)
    \/ \E env \in {"ok", "fail"} : getNewOutput(<<"a">>, env)
    \/ \E env \in {"ok", "fail"} : killSession(<<"a">>, env)

GuardSpec == Init /\ [][NextGuard]_vars

-----------------------------------------------------------------------------
(* RegistrySpec: every operation of the manager, and other actors on the host *)

NextRegistry ==
    \/ \E d \in Dirs, c \in Channels, env \in Envs : createSession(<<"a">>, d, c, env)
    \/ \E id \in Ids, c \in Channels : linkChannel(id, c)
    \/ \E c \in Channels : unlinkChannel(c)
    \/ \E env \in Envs : killSession(<<"a">>, env)
    \/ \E t \in Texts, env \in {"ok", "fail"} : Idle /\ sendToSession(<<"a">>, t, env)
    \/ \E env \in {"ok", "fail"} : sendToSessionResume(env)
    \/ Tick
    \/ \E env \in {"ok", "fail"} : sendEscape(<<"a">>, env)
    \/ \E env \in {"ok", "fail"} : captureOutput(<<"a">>, env)
    \/ \E env \in {"ok", "fail"} : getNewOutput(<<"a">>, env)
    \/ \E env \in {"ok", "fail"} : listSessions(env)
    \/ \E env \in {"ok", "fail"} : getSession(<<"a">>, env)
    \/ ExternalCreate(getTmuxName(<<"a">>))
    \/ ExternalKill(getTmuxName(<<"a">>))

RegistrySpec == Init /\ [][NextRegistry]_vars

-----------------------------------------------------------------------------
(* KillSpec: a session that is read, killed and created again under the same id *)

KillPanes == { <<"A">>, <<"A", "B">> }

NextKill ==
    \/ \E env \in {"ok", "raced"} : createSession(<<"a">>, <<"/", "a">>, "c1", env)
    \/ \E env \in Envs : killSession(<<"a">>, env)
    \/ \E env \in {"ok", "fail"} : getNewOutput(<<"a">>, env)
    \/ captureOutput(<<"a">>, "ok")
    \/ getSession(<<"a">>, "ok")
    \/ \E t \in Texts : Idle /\ sendToSession(<<"a">>, t, "ok")
    \/ \E env \in {"ok", "fail"} : sendToSessionResume(env)
    \/ Tick
    \/ \E t \in KillPanes : PaneOutput(getTmuxName(<<"a">>), t)
    \/ ExternalCreate(getTmuxName(<<"a">>))
    \/ ExternalKill(getTmuxName(<<"a">>))

KillSpec == Init /\ [][NextKill]_vars

-----------------------------------------------------------------------------
(* Steps of the manager, for the properties below *)

\* This step is a manager call (the call record is renewed by every call)
ManagerStep == lastCall'.n # lastCall.n

StepOf(op) == ManagerStep /\ lastCall'.op = op

Issued(call, cmd) == \E i \in 1..Len(call.cmds) : call.cmds[i].cmd = cmd

RegistryUnchanged == UNCHANGED <<channelMap, reverseMap>>

-----------------------------------------------------------------------------
(* C1: in every reachable state the registry is a bidirectional 1:1 mapping: *)
(* getChannelBySession(s) = c exactly when getSessionByChannel(c) = s, for   *)
(* all session ids s and channel ids c.                                      *)

C1_RegistryBijective ==
    \A s \in Ids, c \in Channels :
        (getChannelBySession(s) = Some(c)) <=> (getSessionByChannel(c) = Some(s))

(* C2: after a successful killSession(id) neither direction of the registry  *)
(* mentions id: getChannelBySession(id) is undefined and no channel maps to  *)
(* id.                                                                       *)

C2_KillRemovesBothDirections ==
    (lastCall.op = "killSession" /\ lastCall.result = OK)
        => /\ getChannelBySession(lastCall.id) = None
           /\ \A c \in Channels : getSessionByChannel(c) # Some(lastCall.id)

(* C3: sendToSession, sendEscape, captureOutput and killSession each start   *)
(* with an existence query to the host and report 'does not exist' exactly   *)
(* when the session is not running at the call; then the query is the only   *)
(* host command and registry, cache, host and pending sends are unchanged.   *)

C3_AbsentSessionFailsCleanly ==
    [][ (ManagerStep /\ lastCall'.op \in {"sendToSession", "sendEscape",
                                           "captureOutput", "killSession"})
        => LET call  == lastCall'
               there == hostHas(host, getTmuxName(call.id))
           IN /\ call.cmds # <<>>
              /\ call.cmds[1] = HostCmd("has-session", getTmuxName(call.id), <<>>)
              /\ (call.result = ErrDoesNotExist) <=> ~there
              /\ ~there => Len(call.cmds) = 1
              /\ ~there => UNCHANGED <<channelMap, reverseMap, lastOutput, host, pending>>
      ]_vars

C3_Witness ==
    /\ lastCall.op = "killSession"
    /\ lastCall.result = ErrDoesNotExist
    /\ MapHas(channelMap, lastCall.id)
    /\ MapHas(lastOutput, lastCall.id)

(* C4: createSession issues the spawn only when, at that call, the resolved  *)
(* directory is allowed, exists, and no session of the name is running. A    *)
(* missing directory is reported as 'Directory does not exist' (after the    *)
(* guard, which is applied first) and a running session as 'already exists'; *)
(* in both cases nothing is spawned and the registry is unchanged.           *)

C4_SpawnOnlyAfterChecks ==
    [][ StepOf("createSession")
        => LET call    == lastCall'
               dir     == resolve(expandHome(call.arg[1]))
               allowed == isPathAllowed(dir)
               exists  == dir \in ExistingDirs
               running == hostHas(host, getTmuxName(call.id))
               spawned == Issued(call, "new-session")
               idle    == ~spawned /\ RegistryUnchanged /\ host' = host
           IN /\ spawned => (allowed /\ exists /\ ~running)
              /\ (allowed /\ ~exists) => call.result = ErrDirMissing
              /\ (~allowed /\ ~exists) => call.result = ErrNotAllowed
              /\ ~exists => idle
              /\ (allowed /\ exists /\ running) => call.result = ErrAlreadyExists
              /\ running => call.result # OK
              /\ running => idle
      ]_vars

C4_Witness ==
    /\ lastCall.op = "createSession"
    /\ lastCall.result = ErrDirMissing
    /\ Len(allowedPaths) > 0
    /\ MapHas(channelMap, lastCall.id)

(* C5: with a non-empty allowlist, a candidate whose resolved path neither   *)
(* equals an allowed root nor begins with a root followed by the separator   *)
(* is rejected with 'Directory not in allowed paths' and nothing is spawned. *)

C5_GuardRejectsOutside ==
    (lastCall.op = "createSession" /\ Len(allowedPaths) > 0)
        => LET resolved == resolve(expandHome(lastCall.arg[1])) IN
           (\A i \in 1..Len(allowedPaths) :
                /\ resolved # allowedPaths[i]
                /\ ~StartsWith(resolved, allowedPaths[i] \o <<SEP>>))
             => /\ lastCall.result = ErrNotAllowed
                /\ ~Issued(lastCall, "new-session")

\* root /a, candidate /aa: a shared string prefix without a separator boundary
C5_Witness ==
    /\ lastCall.op = "createSession"
    /\ allowedPaths = << <<"/", "a">> >>
    /\ resolve(expandHome(lastCall.arg[1])) = <<"/", "a", "a">>
    /\ lastCall.result = ErrNotAllowed

(* C6: with a non-empty allowlist, a candidate that is an allowed root or a  *)
(* strict descendant of one (its components extend the root's components)   *)
(* is not rejected with 'Directory not in allowed paths'.                    *)

Components(p) == NormalizeSegs(Split(p, SEP), <<>>)

IsWithin(root, p) ==
    LET r == Components(root)
        c == Components(p)
    IN Len(r) <= Len(c) /\ SubSeq(c, 1, Len(r)) = r

C6_GuardAcceptsInside ==
    (lastCall.op = "createSession" /\ Len(allowedPaths) > 0)
        => LET resolved == resolve(expandHome(lastCall.arg[1])) IN
           (\E i \in 1..Len(allowedPaths) : IsWithin(allowedPaths[i], resolved))
             => lastCall.result # ErrNotAllowed

(* C7: with the empty allowlist no candidate is rejected by the guard, and   *)
(* createSession on an existing absolute directory, with no session of the   *)
(* id running and the host not failing, succeeds and returns the directory.  *)

IsAbsolute(p) == p # <<>> /\ Head(p) = SEP

C7_EmptyAllowlistAcceptsAll ==
    [][ (StepOf("createSession") /\ Len(allowedPaths) = 0)
        => LET call == lastCall'
               dir  == call.arg[1]
           IN /\ call.result # ErrNotAllowed
              /\ ( /\ IsAbsolute(dir)
                   /\ resolve(dir) \in ExistingDirs
                   /\ ~hostHas(host, getTmuxName(call.id))
                   /\ call.result # ErrCreate )
                 => /\ call.result = OK
                    /\ call.ret[1].directory = resolve(dir)
                    /\ dir \in ExistingDirs => call.ret[1].directory = dir
      ]_vars

C7_Witness ==
    /\ lastCall.op = "createSession"
    /\ allowedPaths = <<>>
    /\ lastCall.result = OK
    /\ lastCall.arg[1] = <<"/", "a", "/", "a">>
    /\ lastCall.ret[1].directory = <<"/", "a", "/", "a">>

(* C8: a sendToSession call injects the text, then waits, then injects       *)
(* Enter: Enter is issued only by the continuation of a call whose text was  *)
(* accepted and whose timer has run its full delay, never in the step that   *)
(* injects the text, and never after a failed text injection.                *)

C8_TextWaitEnter ==
    [][ ManagerStep
        => LET call == lastCall' IN
           /\ Issued(call, "send-keys Enter")
                => /\ call.op = "sendToSession.resume"
                   /\ ~Issued(call, "send-keys -l")
                   /\ pending # <<>>
                   /\ Head(pending).id = call.id
                   /\ Head(pending).remaining = 0
           /\ Len(pending') > Len(pending)
                => /\ call.op = "sendToSession"
                   /\ call.result = "waiting"
                   /\ Issued(call, "send-keys -l")
                   /\ hostHas(host', getTmuxName(call.id))
                   /\ pending' = Append(pending, [id |-> call.id, text |-> call.arg,
                                                  remaining |-> SEND_DELAY_MS])
                   /\ SEND_DELAY_MS > 0
           /\ (call.op = "sendToSession" /\ call.result # "waiting")
                => /\ pending' = pending
                   /\ call.result \in {ErrSend, ErrDoesNotExist}
      ]_vars

C8_Witness ==
    /\ lastCall.op = "sendToSession.resume"
    /\ lastCall.result = OK
    /\ Issued(lastCall, "send-keys Enter")

(* C9 (as claimed): no host command of one call is issued between another    *)
(* call's text injection and that call's Enter injection on the same         *)
(* session.                                                                  *)

C9_NoInterleaving ==
    [][ (ManagerStep /\ lastCall'.cmds # <<>>)
        => \A i \in 1..Len(pending) :
              pending[i].id = lastCall'.id
                => (lastCall'.op = "sendToSession.resume" /\ i = 1 /\
                    \A j \in 2..Len(pending) : pending[j].id # lastCall'.id)
      ]_vars

(* C9 (amended): only the synchronous part of a call is free of              *)
(* interleaving. All host commands of a step belong to one call and one      *)
(* session, the existence query directly followed by its command; a send     *)
(* waiting for its timer stays queued while other calls run, and the         *)
(* waiting sends inject Enter in the order their text was injected.          *)

C9_SegmentsAtomicSendsFifo ==
    [][ ManagerStep
        => LET call == lastCall' IN
           /\ \A k \in 1..Len(call.cmds) : call.cmds[k].name = getTmuxName(call.id)
           /\ Len(call.cmds) <= 2
           /\ Len(call.cmds) = 2 => call.cmds[1].cmd = "has-session"
           /\ IF call.op = "sendToSession.resume"
              THEN /\ pending # <<>>
                   /\ call.id = Head(pending).id
                   /\ pending' = Tail(pending)
              ELSE /\ Len(pending') >= Len(pending)
                   /\ SubSeq(pending', 1, Len(pending)) = pending
      ]_vars

\* sendEscape ran for a session while two sends to it were waiting
C9_Witness ==
    /\ Len(pending) = 2
    /\ lastCall.op = "sendEscape"
    /\ lastCall.result = OK
    /\ \A i \in 1..2 : pending[i].id = lastCall.id

(* C10: createSession calls for one id never create twice on the host: a     *)
(* call succeeds only if the session was not running at the call, and then   *)
(* the session runs and the registry holds the call's link in both           *)
(* directions; a call made while the session runs issues no spawn and fails  *)
(* ('already exists' for a valid directory), a call that loses the race to   *)
(* another actor fails with 'Failed to create session'; a failed call leaves *)
(* the registry as the successful call set it.                               *)

C10_NoDuplicateCreate ==
    [][ StepOf("createSession")
        => LET call     == lastCall'
               name     == getTmuxName(call.id)
               channel  == call.arg[2]
               dir      == resolve(expandHome(call.arg[1]))
               validDir == isPathAllowed(dir) /\ dir \in ExistingDirs
               running  == hostHas(host, name)
               linked   == /\ MapHas(channelMap', call.id)
                           /\ channelMap'[call.id] = channel
                           /\ MapHas(reverseMap', channel)
                           /\ reverseMap'[channel] = call.id
           IN /\ running => call.result # OK
              /\ running => ~Issued(call, "new-session")
              /\ (running /\ validDir) => call.result = ErrAlreadyExists
              /\ call.result = OK => (~running /\ hostHas(host', name) /\ linked)
              /\ call.result # OK => RegistryUnchanged
              /\ call.result \in {OK, ErrNotAllowed, ErrDirMissing, ErrAlreadyExists, ErrCreate}
              /\ (call.result = ErrCreate /\ call.diag = DiagDuplicate)
                    => (~running /\ hostHas(host', name))
      ]_vars

\* A second createSession for a running id, refused, the first call's link kept
C10_Witness ==
    /\ lastCall.op = "createSession"
    /\ lastCall.result = ErrAlreadyExists
    /\ MapHas(channelMap, lastCall.id)
    /\ channelMap[lastCall.id] # lastCall.arg[2]
    /\ hostHas(host, getTmuxName(lastCall.id))

(* C11: a successful createSession(id, directory, channelId) has issued      *)
(* exactly one spawn, for the name prefix+id and the resolved directory; the *)
(* host then runs that one session more; both registry directions hold the   *)
(* link; the descriptor carries id, name, resolved directory, channelId and  *)
(* the attach command for the name.                                          *)

C11_CreateSpawnsLinksDescribes ==
    [][ (StepOf("createSession") /\ lastCall'.result = OK)
        => LET call    == lastCall'
               id      == call.id
               channel == call.arg[2]
               name    == SESSION_PREFIX \o id
               dir     == resolve(expandHome(call.arg[1]))
               spawns  == {i \in 1..Len(call.cmds) : call.cmds[i].cmd = "new-session"}
               desc    == call.ret[1]
           IN /\ Cardinality(spawns) = 1
              /\ \A i \in spawns : call.cmds[i].name = name /\ call.cmds[i].arg = dir
              /\ ~hostHas(host, name)
              /\ DOMAIN host' = DOMAIN host \cup {name}
              /\ \A n \in DOMAIN host : host'[n] = host[n]
              /\ MapHas(channelMap', id) /\ channelMap'[id] = channel
              /\ MapHas(reverseMap', channel) /\ reverseMap'[channel] = id
              /\ desc.id = id
              /\ desc.tmuxName = name
              /\ desc.directory = dir
              /\ desc.channelId = channel
              /\ desc.attachCommand = AttachPrefix \o name
      ]_vars

\* createSession('a', '~', 'c1') succeeded in the home directory, replacing a's link to c2
C11_Witness ==
    /\ lastCall.op = "createSession"
    /\ lastCall.result = OK
    /\ lastCall.arg[1] = <<"~">>
    /\ lastCall.ret[1].directory = homedir
    /\ hostHas(host, SESSION_PREFIX \o lastCall.id)
    /\ MapHas(reverseMap, "c2")

(* C12: when the spawn of a createSession call returns a non-zero status,    *)
(* the call fails with 'Failed to create session' carrying the host's        *)
(* diagnostic (stderr, or 'tmux command failed' when stderr is empty), and   *)
(* registry and last-output cache are as before the call.                    *)

C12_SpawnFailureWrapped ==
    [][ StepOf("createSession")
        => \A env \in Envs :
             LET call    == lastCall'
                 name    == SESSION_PREFIX \o call.id
                 dir     == resolve(expandHome(call.arg[1]))
                 spawned == /\ isPathAllowed(dir)
                            /\ dir \in ExistingDirs
                            /\ ~hostHas(host, name)
                 h       == hostAfterRace(host, name, env)
                 refused == hostHas(h, name) \/ env = "fail"
                 stderr  == IF hostHas(h, name) THEN DiagDuplicate ELSE ""
             IN (createSession(call.id, call.arg[1], call.arg[2], env) /\ spawned /\ refused)
                  => /\ Issued(call, "new-session")
                     /\ call.result = ErrCreate
                     /\ call.diag = (IF stderr # "" THEN stderr ELSE "tmux command failed")
                     /\ call.ret = None
                     /\ UNCHANGED <<channelMap, reverseMap, lastOutput>>
      ]_vars

\* A spawn refused by the host, with a link and a cached capture in place
C12_Witness ==
    /\ lastCall.op = "createSession"
    /\ lastCall.result = ErrCreate
    /\ lastCall.diag = DiagHost
    /\ MapHas(channelMap, lastCall.id)
    /\ channelMap[lastCall.id] # lastCall.arg[2]
    /\ MapHas(lastOutput, lastCall.id)

(* C13: after unlinkChannel(c) no direction of the registry mentions c:      *)
(* getSessionByChannel(c) is undefined and no session s has                  *)
(* getChannelBySession(s) = c; entries that involve neither c nor the        *)
(* session c was linked to are unchanged; unlinking a channel that is not    *)
(* linked changes nothing.                                                   *)

C13_UnlinkRemovesBothDirections ==
    [][ StepOf("unlinkChannel")
        => LET c      == lastCall'.arg
               linked == MapHas(reverseMap, c)
               others == {s \in DOMAIN channelMap :
                             channelMap[s] # c /\ (linked => s # reverseMap[c])}
           IN /\ ~MapHas(reverseMap', c)
              /\ \A s \in DOMAIN channelMap' : channelMap'[s] # c
              /\ \A s \in others : MapHas(channelMap', s) /\ channelMap'[s] = channelMap[s]
              /\ \A d \in DOMAIN reverseMap \ {c} :
                    (linked => reverseMap[d] # reverseMap[c])
                      => MapHas(reverseMap', d) /\ reverseMap'[d] = reverseMap[d]
              /\ ~linked => RegistryUnchanged
      ]_vars

(* C14: a getNewOutput(id) call that returns has issued one capture of the   *)
(* pane and leaves the cache entry of id equal to that capture, whatever it  *)
(* returns; the cache entries of other sessions are untouched; the value     *)
(* returned is the diff of the capture against the entry before the call.    *)

C14_CacheHoldsLastCapture ==
    [][ (StepOf("getNewOutput") /\ lastCall'.result = OK)
        => LET call     == lastCall'
               id       == call.id
               name     == SESSION_PREFIX \o id
               captures == {i \in 1..Len(call.cmds) : call.cmds[i].cmd = "capture-pane"}
               previous == IF MapHas(lastOutput, id) THEN lastOutput[id] ELSE <<>>
           IN /\ hostHas(host, name)
              /\ Cardinality(captures) = 1
              /\ \A i \in captures : call.cmds[i].name = name
              /\ DOMAIN lastOutput' = DOMAIN lastOutput \cup {id}
              /\ lastOutput'[id] = host[name]
              /\ \A o \in DOMAIN lastOutput \ {id} : lastOutput'[o] = lastOutput[o]
              /\ call.ret = diffOutput(previous, host[name])
              /\ host' = host
      ]_vars

\* A call that returned none; the cache holds the capture of the pane
C14_Witness ==
    /\ lastCall.op = "getNewOutput"
    /\ lastCall.result = OK
    /\ lastCall.ret = None
    /\ MapHas(lastOutput, lastCall.id)
    /\ lastOutput[lastCall.id] = <<"A">>
    /\ hostHas(host, getTmuxName(lastCall.id))
    /\ host[getTmuxName(lastCall.id)] = <<"A">>

(* C15: getNewOutput returns none when there is no previous capture of the   *)
(* session (no cache entry, or an empty one) and when the capture equals the *)
(* previous one; so of two consecutive calls with the pane unchanged in      *)
(* between, the second returns none.                                         *)

C15_NoneOnFirstOrUnchanged ==
    [][ (StepOf("getNewOutput") /\ lastCall'.result = OK)
        => LET call      == lastCall'
               id        == call.id
               capture   == host[SESSION_PREFIX \o id]
               first     == ~MapHas(lastOutput, id) \/ lastOutput[id] = <<>>
               unchanged == MapHas(lastOutput, id) /\ lastOutput[id] = capture
               again     == /\ lastCall.op = "getNewOutput"
                            /\ lastCall.id = id
                            /\ lastCall.result = OK
                            /\ unchanged
           IN /\ first => call.ret = None
              /\ unchanged => call.ret = None
              /\ again => call.ret = None
      ]_vars

\* none returned for a pane that holds two lines
C15_Witness ==
    /\ lastCall.op = "getNewOutput"
    /\ lastCall.result = OK
    /\ lastCall.ret = None
    /\ hostHas(host, getTmuxName(lastCall.id))
    /\ host[getTmuxName(lastCall.id)] = <<"A", "\n", "B">>
    /\ lastOutput[lastCall.id] = <<"A", "\n", "B">>

(* C16: whenever getNewOutput returns text d, d is the tail of the capture:  *)
(* the capture, with surrounding whitespace trimmed, ends with d (so that    *)
(* the previous capture followed by d reproduces the tail of the current     *)
(* one), on the fast path and on the general path.                           *)

C16_DiffIsTailOfCurrent ==
    [][ (StepOf("getNewOutput") /\ lastCall'.result = OK /\ lastCall'.ret # None)
        => LET current == host[SESSION_PREFIX \o lastCall'.id]
               d       == lastCall'.ret[1]
           IN EndsWith(trim(current), d)
      ]_vars

(* C17: fast path. When previous is not empty, current differs from it, is   *)
(* longer, and ends with the last 500 characters of previous (all of         *)
(* previous when it is shorter), getNewOutput returns the first              *)
(* Len(current) - Len(previous) characters of current, not the result of     *)
(* the line walk.                                                            *)

C17_FastPathReturnsPrefix ==
    [][ (StepOf("getNewOutput") /\ lastCall'.result = OK /\ MapHas(lastOutput, lastCall'.id))
        => LET previous == lastOutput[lastCall'.id]
               current  == host[SESSION_PREFIX \o lastCall'.id]
               n        == Len(previous)
               tail     == IF n <= TAIL_CHARS THEN previous
                           ELSE [i \in 1..TAIL_CHARS |-> previous[n - TAIL_CHARS + i]]
               applies  == /\ previous # <<>>
                           /\ current # previous
                           /\ Len(current) > n
                           /\ Len(tail) <= Len(current)
                           /\ \A i \in 1..Len(tail) :
                                 current[Len(current) - Len(tail) + i] = tail[i]
           IN applies
                => lastCall'.ret = Some([i \in 1..(Len(current) - n) |-> current[i]])
      ]_vars

\* previous 'B' + 500 'A', current 'BC' + 500 'A': only the tails agree, 'B' is returned
C17_Witness ==
    /\ lastCall.op = "getNewOutput"
    /\ lastCall.result = OK
    /\ lastCall.ret = Some(<<"B">>)
    /\ MapHas(lastOutput, lastCall.id)
    /\ lastOutput[lastCall.id] = <<"B", "C">> \o Rep("A", TAIL_CHARS)

(* C18: general path. When previous is not empty, current differs from it    *)
(* and the fast path does not apply, getNewOutput walks the lines of the     *)
(* trimmed current while each occurs anywhere among the lines of the trimmed *)
(* previous, and returns the lines from the first one not found to the end,  *)
(* joined and trimmed, or none when that is empty. Previous "A\nB" and       *)
(* current "A\nB\nC" give "C".                                               *)

\* The lines from the first one that is not among oldLines to the end, joined and trimmed
NewLinesText(oldLines, newLines) ==
    LET known   == {oldLines[i] : i \in 1..Len(oldLines)}
        unknown == {i \in 1..Len(newLines) : newLines[i] \notin known}
        from    == IF unknown = {} THEN Len(newLines) + 1
                   ELSE CHOOSE i \in unknown : \A j \in unknown : i <= j
    IN trim(joinLines(SubSeq(newLines, from, Len(newLines))))

C18_GeneralPathReturnsNewLines ==
    [][ (StepOf("getNewOutput") /\ lastCall'.result = OK /\ MapHas(lastOutput, lastCall'.id))
        => \A previous \in {lastOutput[lastCall'.id]}, current \in {host[SESSION_PREFIX \o lastCall'.id]} :
             LET fast == /\ Len(current) > Len(previous)
                         /\ EndsWith(current, sliceLast(previous, TAIL_CHARS))
             IN (previous # <<>> /\ current # previous /\ ~fast)
                  => \A oldLines \in {Split(trim(previous), "\n")},
                        newLines \in {Split(trim(current), "\n")} :
                       \A text \in {NewLinesText(oldLines, newLines)} :
                          /\ lastCall'.ret = (IF text = <<>> THEN None ELSE Some(text))
                          /\ (\A i \in 1..Len(newLines) : \E k \in 1..Len(oldLines) :
                                  newLines[i] = oldLines[k])
                                => lastCall'.ret = None
                          /\ ( /\ previous = <<"A", "\n", "B">>
                               /\ current = <<"A", "\n", "B", "\n", "C">> )
                                => lastCall'.ret = Some(<<"C">>)
      ]_vars

\* "C\nA" returned for the capture "A\nC\nA": everything from the first unknown line on
C18_Witness ==
    /\ lastCall.op = "getNewOutput"
    /\ lastCall.result = OK
    /\ lastCall.ret = Some(<<"C", "\n", "A">>)
    /\ MapHas(lastOutput, lastCall.id)
    /\ lastOutput[lastCall.id] = <<"A", "\n", "C", "\n", "A">>

(* C19: a listSessions call whose listing succeeds returns exactly one entry *)
(* for each host session whose name starts with the prefix and none for any  *)
(* other; each entry's id is its name without the prefix; every id created   *)
(* through createSession and still running is listed under the id passed to  *)
(* createSession.                                                            *)

C19_ListExactlyPrefixed ==
    [][ (StepOf("listSessions") /\ listSessions("ok"))
        => LET entries  == lastCall'.ret[1]
               prefixed == {n \in DOMAIN host : StartsWith(n, SESSION_PREFIX)}
               created  == {id \in DOMAIN channelMap : hostHas(host, SESSION_PREFIX \o id)}
           IN /\ Len(entries) = Cardinality(prefixed)
              /\ \A n \in prefixed :
                    Cardinality({i \in 1..Len(entries) : entries[i].tmuxName = n}) = 1
              /\ \A i \in 1..Len(entries) :
                    /\ entries[i].tmuxName \in prefixed
                    /\ SESSION_PREFIX \o entries[i].id = entries[i].tmuxName
              /\ \A id \in created :
                    Cardinality({i \in 1..Len(entries) : entries[i].id = id}) = 1
      ]_vars

(* C20: the read-only queries never raise and change nothing: listSessions   *)
(* returns the empty sequence when the listing fails; getSession(id) returns *)
(* null when the session does not exist and when the lookup fails;           *)
(* checkTmux and sessionExists return false when their probe fails.          *)

C20_QueriesNeverRaise ==
    [][ (ManagerStep /\ lastCall'.op \in {"listSessions", "getSession",
                                           "checkTmux", "sessionExists"})
        => LET call == lastCall'
               name == SESSION_PREFIX \o call.id
           IN /\ call.result = OK
              /\ call.diag = NoValue
              /\ UNCHANGED <<allowedPaths, channelMap, reverseMap, lastOutput, pending>>
              /\ (call.op = "listSessions" /\ listSessions("fail")) => call.ret = Some(<<>>)
              /\ (call.op = "getSession" /\ ~hostHas(host, name))
                    => (call.ret = None /\ host' = host)
              /\ (call.op = "getSession" /\ getSession(call.id, "fail")) => call.ret = None
              /\ (call.op = "getSession" /\ ~hostHas(host', name)) => call.ret = None
              /\ (call.op = "checkTmux" /\ checkTmux("fail")) => call.ret = Some(FALSE)
              /\ (call.op = "sessionExists" /\ ~hostHas(host, name)) => call.ret = Some(FALSE)
              /\ (call.op = "sessionExists" /\ sessionExistsCall(call.id, "fail"))
                    => call.ret = Some(FALSE)
      ]_vars

\* getSession answered null for a session that is linked and has a cached capture
C20_Witness ==
    /\ lastCall.op = "getSession"
    /\ lastCall.result = OK
    /\ lastCall.ret = None
    /\ ~hostHas(host, getTmuxName(lastCall.id))
    /\ MapHas(channelMap, lastCall.id)
    /\ MapHas(lastOutput, lastCall.id)

(* C21: the spawn of createSession is handed an argument vector, not a      *)
(* command string: the element after '-s' is the multiplexer name and the    *)
(* element after '-c' is the resolved directory, each one element and        *)
(* character for character, also for a directory such as '/a/$(a)' or        *)
(* '/a a'; no other element of the vector depends on them.                   *)

C21_SpawnArgumentVector ==
    [][ (StepOf("createSession") /\ Issued(lastCall', "new-session"))
        => \A dir \in {resolve(expandHome(lastCall'.arg[1]))}, name \in {SESSION_PREFIX \o lastCall'.id} :
             \A i \in {k \in 1..Len(lastCall'.cmds) : lastCall'.cmds[k].cmd = "new-session"} :
                LET argv == lastCall'.cmds[i].argv
                    atS  == {k \in 1..Len(argv) : argv[k] = <<"-", "s">>}
                    atC  == {k \in 1..Len(argv) : argv[k] = <<"-", "c">>}
                IN /\ Len(argv) = 12
                   /\ Cardinality(atS) = 1
                   /\ \A k \in atS : k < Len(argv) /\ argv[k + 1] = name
                   /\ Cardinality(atC) = 1
                   /\ \A k \in atC : k < Len(argv) /\ argv[k + 1] = dir
                   /\ Cardinality({k \in 1..Len(argv) : argv[k] = name}) = 1
                   /\ Cardinality({k \in 1..Len(argv) : argv[k] = dir}) = 1
                   /\ argv[1] = <<"n", "e", "w", "-", "s", "e", "s", "s", "i", "o", "n">>
                   /\ argv[11] = <<"c", "l", "a", "u", "d", "e">>
      ]_vars

\* A session spawned in '/a/$(a)': the directory is the tenth argument, untouched
C21_Witness ==
    /\ lastCall.op = "createSession"
    /\ lastCall.result = OK
    /\ lastCall.arg[1] = <<"/", "a", "/", "$", "(", "a", ")">>
    /\ Len(lastCall.cmds) = 2
    /\ lastCall.cmds[2].argv[10] = <<"/", "a", "/", "$", "(", "a", ")">>

(* C22: the argument sendToSession builds for a text (each ' replaced by    *)
(* '\'' and the whole wrapped in single quotes) is read by the shell as      *)
(* exactly one word, equal to the text; so the whole command line has the    *)
(* six words tmux, send-keys, -t, the session name, -l and the text.         *)

C22_QuotedTextIsOneWord ==
    [][ (StepOf("sendToSession") /\ Issued(lastCall', "send-keys -l"))
        => \A text \in {lastCall'.arg}, name \in {SESSION_PREFIX \o lastCall'.id} :
             \A i \in {k \in 1..Len(lastCall'.cmds) : lastCall'.cmds[k].cmd = "send-keys -l"} :
                \A quoted \in {lastCall'.cmds[i].arg} :
                   /\ shellWords(quoted) = <<text>>
                   /\ shellWords(sendKeysLine(name, quoted))
                        = << <<"t", "m", "u", "x">>,
                             <<"s", "e", "n", "d", "-", "k", "e", "y", "s">>,
                             <<"-", "t">>, name, <<"-", "l">>, text >>
      ]_vars

\* The text a' 'a was injected: two quotes and a blank between them
C22_Witness ==
    /\ lastCall.op = "sendToSession"
    /\ lastCall.result = "waiting"
    /\ lastCall.arg = <<"a", "'", " ", "'", "a">>
    /\ Issued(lastCall, "send-keys -l")

(* C23: killSession(id) removes the channel link and the cache entry of id  *)
(* only when the kill succeeded. When the session exists at the call and the *)
(* host refuses the kill command, the call fails with 'Failed to kill        *)
(* session' and the host's diagnostic, and both registry directions and the  *)
(* cache are as before the call.                                             *)

C23_KillEvictsOnlyOnSuccess ==
    [][ StepOf("killSession")
        => LET call    == lastCall'
               id      == call.id
               name    == SESSION_PREFIX \o id
               running == hostHas(host, name)
               kept    == UNCHANGED <<channelMap, reverseMap, lastOutput>>
           IN /\ \A env \in Envs :
                   ( /\ killSession(id, env)
                     /\ running
                     /\ (env = "fail" \/ ~hostHas(hostAfterRace(host, name, env), name)) )
                     => /\ call.result = ErrKill
                        /\ call.diag \in {DiagHost, DiagNoSession}
                        /\ call.ret = None
                        /\ Issued(call, "kill-session")
                        /\ kept
              /\ call.result = ErrKill => (running /\ kept)
              /\ call.result # OK => kept
              /\ call.result = OK
                   => /\ running
                      /\ ~hostHas(host', name)
                      /\ ~MapHas(channelMap', id)
                      /\ ~MapHas(lastOutput', id)
                      /\ MapHas(channelMap, id) => ~MapHas(reverseMap', channelMap[id])
      ]_vars

\* A kill the host refused, for a session that is linked and has a cached capture
C23_Witness ==
    /\ lastCall.op = "killSession"
    /\ lastCall.result = ErrKill
    /\ lastCall.diag = DiagHost
    /\ hostHas(host, getTmuxName(lastCall.id))
    /\ MapHas(channelMap, lastCall.id)
    /\ MapHas(reverseMap, channelMap[lastCall.id])
    /\ MapHas(lastOutput, lastCall.id)

(* C24: nothing is retried. In each step of a manager call at most one host *)
(* command other than the existence probe is issued and it is the last one;  *)
(* a call whose command the host refuses ends with that command, reports one *)
(* failure and queues no continuation; the continuation of a send injects    *)
(* Enter once, never the text again, and is over whether Enter was accepted  *)
(* or not.                                                                   *)

HostCommands ==
    {"new-session", "send-keys -l", "send-keys Enter", "send-keys Escape",
     "capture-pane", "kill-session"}

HostFailures == {ErrCreate, ErrSend, ErrCapture, ErrEscape, ErrKill}

C24_NoRetry ==
    [][ ManagerStep
        => LET call    == lastCall'
               id      == call.id
               name    == SESSION_PREFIX \o id
               acts    == {i \in 1..Len(call.cmds) : call.cmds[i].cmd \in HostCommands}
               refused(env) == \/ env = "fail"
                               \/ ~hostHas(hostAfterRace(host, name, env), name)
               fires(env) ==
                   \/ call.op = "sendToSession" /\ sendToSession(id, call.arg, env)
                   \/ call.op = "sendEscape" /\ sendEscape(id, env)
                   \/ call.op = "captureOutput" /\ captureOutput(id, env)
                   \/ call.op = "getNewOutput" /\ getNewOutput(id, env)
                   \/ call.op = "killSession" /\ killSession(id, env)
           IN /\ Cardinality(acts) <= 1
              /\ \A i \in acts : i = Len(call.cmds)
              /\ \A k \in HostCommands :
                    Cardinality({i \in 1..Len(call.cmds) : call.cmds[i].cmd = k}) <= 1
              /\ call.result \in HostFailures
                    => /\ Cardinality(acts) = 1
                       /\ call.ret = None
                       /\ call.diag # NoValue
                       /\ Len(pending') <= Len(pending)
              /\ \A env \in Envs :
                    (fires(env) /\ hostHas(host, name) /\ refused(env))
                      => call.result \in HostFailures
              /\ (call.op = "createSession" /\ Issued(call, "new-session") /\ call.result # OK)
                    => call.result = ErrCreate
              /\ call.op = "sendToSession"
                    => /\ ~Issued(call, "send-keys Enter")
                       /\ pending' # pending => call.result = "waiting"
              /\ call.op = "sendToSession.resume"
                    => /\ pending # <<>>
                       /\ call.id = Head(pending).id
                       /\ pending' = Tail(pending)
                       /\ call.cmds = <<HostCmd("send-keys Enter", name, <<>>)>>
                       /\ call.result \in {OK, ErrSend}
      ]_vars

\* The Enter of the only waiting send was refused: the call is over, nothing is queued
C24_Witness ==
    /\ lastCall.op = "sendToSession.resume"
    /\ lastCall.result = ErrSend
    /\ lastCall.cmds = <<HostCmd("send-keys Enter", getTmuxName(lastCall.id), <<>>)>>
    /\ pending = <<>>

(* C25: the multiplexer name of a session is the prefix followed by its id, *)
(* whatever the state; two different ids never have the same name; removing  *)
(* the prefix from the name, the way listSessions does it and the way        *)
(* getSessionIdFromTmuxName does it, gives the id back, also for ids that    *)
(* contain the prefix.                                                       *)

C25_NameInjectiveStripInverse ==
    [][ ManagerStep
        => /\ (lastCall'.op = "createSession" /\ lastCall'.result = OK)
                => \A id \in {lastCall'.id} :
                      /\ DOMAIN host' \ DOMAIN host = {SESSION_PREFIX \o id}
                      /\ lastCall'.ret[1].tmuxName = SESSION_PREFIX \o id
                      /\ \A name \in DOMAIN host' \ DOMAIN host :
                            /\ replaceFirst(name, SESSION_PREFIX) = id
                            /\ getSessionIdFromTmuxName(name) = Some(id)
                            /\ \A other \in NameIds \ {id} : getTmuxName(other) # name
           /\ (lastCall'.op = "listSessions" /\ listSessions("ok"))
                => \A entries \in {lastCall'.ret[1]} :
                      /\ {entries[i].id : i \in 1..Len(entries)}
                            = {id \in NameIds : hostHas(host, SESSION_PREFIX \o id)}
                      /\ \A i \in 1..Len(entries) :
                            /\ SESSION_PREFIX \o entries[i].id = entries[i].tmuxName
                            /\ getSessionIdFromTmuxName(entries[i].tmuxName)
                                  = Some(entries[i].id)
                      /\ Len(entries) = Cardinality(DOMAIN host)
      ]_vars

\* The sessions 'claude-' and 'aclaude-' are listed under these ids
C25_Witness ==
    /\ lastCall.op = "listSessions"
    /\ Len(lastCall.ret[1]) = 2
    /\ \E i, j \in 1..2 :
          /\ lastCall.ret[1][i].id = SESSION_PREFIX
          /\ lastCall.ret[1][i].tmuxName = SESSION_PREFIX \o SESSION_PREFIX
          /\ lastCall.ret[1][j].id = <<"a">> \o SESSION_PREFIX

(* C26: createSession reports the first check that fails, in the order      *)
(* allowlist, directory, session: a directory outside the allowlist gives    *)
(* 'Directory not in allowed paths' also when it does not exist or the id    *)
(* is in use; an allowed directory that does not exist gives 'Directory does *)
(* not exist' also when the id is in use; the host is asked about the        *)
(* session only after both directory checks passed.                          *)

C26_ChecksInOrder ==
    [][ StepOf("createSession")
        => \A dir \in {resolve(expandHome(lastCall'.arg[1]))} :
             LET call    == lastCall'
                 name    == SESSION_PREFIX \o call.id
                 allowed == \/ Len(allowedPaths) = 0
                            \/ \E i \in 1..Len(allowedPaths) :
                                  \/ dir = allowedPaths[i]
                                  \/ StartsWith(dir, allowedPaths[i] \o <<"/">>)
                 exists  == dir \in ExistingDirs
                 running == hostHas(host, name)
             IN /\ ~allowed => (call.result = ErrNotAllowed /\ call.cmds = <<>>)
                /\ (allowed /\ ~exists) => (call.result = ErrDirMissing /\ call.cmds = <<>>)
                /\ (allowed /\ exists)
                      => /\ call.cmds # <<>>
                         /\ call.cmds[1] = HostCmd("has-session", name, <<>>)
                /\ (allowed /\ exists /\ running)
                      => (call.result = ErrAlreadyExists /\ Len(call.cmds) = 1)
                /\ Issued(call, "has-session") => (allowed /\ exists)
                /\ call.result = ErrAlreadyExists => (allowed /\ exists /\ running)
                /\ call.result = ErrDirMissing => (allowed /\ ~exists)
      ]_vars

\* Outside the allowlist, absent, and the id in use: the allowlist is what is reported
C26_Witness ==
    /\ lastCall.op = "createSession"
    /\ lastCall.result = ErrNotAllowed
    /\ Len(allowedPaths) > 0
    /\ resolve(expandHome(lastCall.arg[1])) \notin ExistingDirs
    /\ hostHas(host, getTmuxName(lastCall.id))
    /\ lastCall.cmds = <<>>

(* C27: the allowlist is consulted by createSession only. sendToSession     *)
(* (both steps), sendEscape, captureOutput, getNewOutput and killSession on  *)
(* a session that exists succeed when the host accepts their command, also   *)
(* after the allowlist was replaced by one that does not contain the         *)
(* session's directory; none of them reports a directory error or changes    *)
(* the allowlist, and replacing the allowlist leaves the host as it is.      *)

SessionOps ==
    {"sendToSession", "sendToSession.resume", "sendEscape", "captureOutput",
     "getNewOutput", "killSession"}

C28_SetReplacesAllowlist ==
    [][ ManagerStep
        => /\ lastCall'.op = "setAllowedPaths"
                => \A paths \in {lastCall'.arg} :
                      /\ Len(allowedPaths') = Len(paths)
                      /\ \A i \in 1..Len(paths) :
                            allowedPaths'[i] = resolve(expandHome(paths[i]))
                      /\ paths = <<>> => allowedPaths' = <<>>
           /\ (lastCall'.op = "createSession" /\ lastCall.op = "setAllowedPaths")
                => \A L2 \in {lastCall.arg}, dir \in {resolve(expandHome(lastCall'.arg[1]))} :
                      LET roots == {resolve(expandHome(L2[i])) : i \in 1..Len(L2)}
                      IN /\ L2 = <<>> => lastCall'.result # ErrNotAllowed
                         /\ (L2 # <<>> /\ \A r \in roots : ~IsWithin(r, dir))
                               => lastCall'.result = ErrNotAllowed
                         /\ (lastCall'.result = ErrNotAllowed)
                               <=> /\ L2 # <<>>
                                   /\ \A r \in roots :
                                         dir # r /\ ~StartsWith(dir, r \o <<"/">>)
      ]_vars

\* /a is rejected under the list [/a/a], which does not contain it
C28_Witness ==
    /\ lastCall.op = "createSession"
    /\ lastCall.result = ErrNotAllowed
    /\ resolve(expandHome(lastCall.arg[1])) = <<"/", "a">>
    /\ allowedPaths = << <<"/", "a", "/", "a">> >>

(* C29: the registry changes only in a successful createSession, in         *)
(* linkChannel, in unlinkChannel and in a successful killSession. The        *)
(* sending and reading operations, the queries, every failed call and what   *)
(* other actors do to the host leave both directions as they are; and        *)
(* linkChannel records its link for a session the host does not know,        *)
(* without a host command.                                                   *)

C29_RegistryChangesOnlyByFour ==
    [][ /\ ~RegistryUnchanged
            => /\ ManagerStep
               /\ \/ lastCall'.op = "createSession" /\ lastCall'.result = OK
                  \/ lastCall'.op = "linkChannel"
                  \/ lastCall'.op = "unlinkChannel"
                  \/ lastCall'.op = "killSession" /\ lastCall'.result = OK
        /\ (ManagerStep /\ lastCall'.op \in {"sendToSession", "sendToSession.resume",
                                             "sendEscape", "captureOutput", "getNewOutput",
                                             "listSessions", "getSession"})
            => RegistryUnchanged
        /\ (ManagerStep /\ lastCall'.result \notin {OK, "waiting"}) => RegistryUnchanged
        /\ ~ManagerStep => RegistryUnchanged
        /\ (ManagerStep /\ lastCall'.op = "linkChannel")
            => /\ lastCall'.cmds = <<>>
               /\ host' = host
               /\ lastCall'.result = OK
               /\ MapHas(channelMap', lastCall'.id)
               /\ channelMap'[lastCall'.id] = lastCall'.arg
               /\ MapHas(reverseMap', lastCall'.arg)
               /\ reverseMap'[lastCall'.arg] = lastCall'.id
      ]_vars

\* The session was captured once and is gone; a capture fails, the link is still there
C29_Witness ==
    /\ lastCall.op = "captureOutput"
    /\ lastCall.result = ErrDoesNotExist
    /\ ~hostHas(host, getTmuxName(lastCall.id))
    /\ MapHas(lastOutput, lastCall.id)
    /\ MapHas(channelMap, lastCall.id)
    /\ MapHas(reverseMap, channelMap[lastCall.id])
    /\ reverseMap[channelMap[lastCall.id]] = lastCall.id

(* C30 (as claimed): a sendToSession call returns true only when its text   *)
(* and its Enter were both accepted for a session that was there at each     *)
(* injection; and when the session is killed during the wait, the call       *)
(* fails with 'Failed to send to session'. Here: the last manager call       *)
(* before the Enter injection was a successful killSession of that session,  *)
(* made while the send was waiting.                                          *)

C30_KilledDuringWaitFails ==
    [][ StepOf("sendToSession.resume")
        => /\ lastCall'.ret = Some(TRUE) => hostHas(host, SESSION_PREFIX \o lastCall'.id)
           /\ ( /\ lastCall.op = "killSession"
                /\ lastCall.result = OK
                /\ lastCall.id = lastCall'.id )
                => lastCall'.result = ErrSend
      ]_vars

(* C30 (amended): what decides is whether a session of the name is there at  *)
(* each injection. true is returned only by the continuation, after the text *)
(* was accepted, and only if a session of the name is there when Enter is    *)
(* injected and the host accepts it; if none is there the call fails with    *)
(* 'Failed to send to session' although the text was injected; if the        *)
(* session was killed and one of the same name created during the wait,      *)
(* Enter goes to the new session and the call returns true.                  *)

C30_TrueOnlyIfBothAccepted ==
    [][ (ManagerStep /\ lastCall'.op \in {"sendToSession", "sendToSession.resume"})
        => LET call == lastCall'
               name == SESSION_PREFIX \o call.id
           IN /\ call.ret = Some(TRUE)
                   => /\ call.op = "sendToSession.resume"
                      /\ call.result = OK
                      /\ Issued(call, "send-keys Enter")
                      /\ hostHas(host, name)
                      /\ pending # <<>>
                      /\ Head(pending).id = call.id
              /\ call.result = OK => call.ret = Some(TRUE)
              /\ Len(pending') > Len(pending)
                   => /\ Issued(call, "send-keys -l")
                      /\ hostHas(host', name)
                      /\ call.ret = None
              /\ (call.op = "sendToSession.resume" /\ ~hostHas(host, name))
                   => /\ call.result = ErrSend
                      /\ call.diag = DiagNoSession
                      /\ call.ret = None
                      /\ pending # <<>> /\ Head(pending).id = call.id
              /\ (call.op = "sendToSession.resume" /\ sendToSessionResume("ok")
                    /\ hostHas(host, name))
                   => call.ret = Some(TRUE)
      ]_vars

\* The session was gone when Enter was due: the call failed after its text was injected
C30_Witness ==
    /\ lastCall.op = "sendToSession.resume"
    /\ lastCall.result = ErrSend
    /\ lastCall.diag = DiagNoSession
    /\ ~hostHas(host, getTmuxName(lastCall.id))
    /\ lastCall.arg = <<"i", "t", "'", "s">>

(* C31: a getNewOutput(id) call that fails, because no session of the name  *)
(* runs or because the host refuses the capture, leaves the cache as it was: *)
(* no entry is created and an entry that was there keeps its value; so a     *)
(* successful call that follows failed ones returns the diff against the     *)
(* capture the last successful call stored.                                  *)

C31_FailedReadKeepsCache ==
    [][ StepOf("getNewOutput")
        => LET call == lastCall'
               id   == call.id
               name == SESSION_PREFIX \o id
           IN /\ call.result \in {OK, ErrDoesNotExist, ErrCapture}
              /\ call.result = ErrDoesNotExist <=> ~hostHas(host, name)
              /\ \A env \in Envs :
                    ( /\ getNewOutput(id, env)
                      /\ hostHas(host, name)
                      /\ (env = "fail" \/ ~hostHas(hostAfterRace(host, name, env), name)) )
                      => call.result = ErrCapture
              /\ call.result # OK
                    => /\ lastOutput' = lastOutput
                       /\ call.ret = None
              /\ ( /\ call.result = OK
                   /\ lastCall.op = "getNewOutput"
                   /\ lastCall.id = id
                   /\ lastCall.result # OK
                   /\ MapHas(lastOutput, id) )
                    => \A previous \in {lastOutput[id]}, current \in {host[name]} :
                          /\ call.ret = diffOutput(previous, current)
                          /\ lastOutput'[id] = current
      ]_vars

\* The capture was refused while the pane had moved on: the entry is the old capture
C31_Witness ==
    /\ lastCall.op = "getNewOutput"
    /\ lastCall.result = ErrCapture
    /\ hostHas(host, getTmuxName(lastCall.id))
    /\ MapHas(lastOutput, lastCall.id)
    /\ lastOutput[lastCall.id] = <<"A", "\n", "B">>
    /\ host[getTmuxName(lastCall.id)] = <<"A", "\n", "B", "\n", "C">>

(* C32: a successful killSession(id) leaves no cache entry for id, and an   *)
(* entry for id comes into being only in a successful getNewOutput(id),      *)
(* which then returns none: the first read of a session created again under  *)
(* the id is not compared with a capture of the killed one. While no session *)
(* of the name runs, getSession(id) returns null and sendToSession,          *)
(* captureOutput and killSession on id fail with 'does not exist'.           *)

C32_KillForgetsOutput ==
    [][ ManagerStep
        => LET call == lastCall'
               id   == call.id
               name == SESSION_PREFIX \o id
               gone == ~hostHas(host, name)
           IN /\ (call.op = "killSession" /\ call.result = OK)
                   => /\ ~MapHas(lastOutput', id)
                      /\ ~hostHas(host', name)
              /\ \A s \in DOMAIN lastOutput' \ DOMAIN lastOutput :
                    /\ call.op = "getNewOutput"
                    /\ call.result = OK
                    /\ s = id
                    /\ hostHas(host, name)
                    /\ call.ret = None
                    /\ lastOutput'[s] = host[name]
              /\ (call.op = "getNewOutput" /\ call.result = OK /\ ~MapHas(lastOutput, id))
                   => call.ret = None
              /\ (call.op = "getNewOutput" /\ call.result = OK /\ lastCall.op = "killSession"
                    /\ lastCall.result = OK /\ lastCall.id = id)
                   => (call.ret = None /\ lastOutput'[id] = host[name])
              /\ (call.op = "getSession" /\ gone) => (call.result = OK /\ call.ret = None)
              /\ (call.op \in {"sendToSession", "captureOutput", "killSession", "getNewOutput"}
                    /\ gone)
                   => /\ call.result = ErrDoesNotExist
                      /\ call.ret = None
                      /\ UNCHANGED <<host, lastOutput, pending>>
      ]_vars

\* A kill succeeded while a send to the session was still waiting; entry, link and session are gone
C32_Witness ==
    /\ lastCall.op = "killSession"
    /\ lastCall.result = OK
    /\ lastCall.ret = Some(TRUE)
    /\ ~MapHas(lastOutput, lastCall.id)
    /\ ~MapHas(channelMap, lastCall.id)
    /\ ~hostHas(host, getTmuxName(lastCall.id))
    /\ pending # <<>>

====
